---- MODULE Spec2Model ----
(***************************************************************************)
(* case7: document store (CaseLoader), hybrid search (SearchService over   *)
(* VectorService) and the get-case tool handler of the MCP server.         *)
(*                                                                         *)
(* Strings whose characters matter (titles, tags, contents, queries,       *)
(* section names) are sequences of one-character strings.  Ids, categories *)
(* and difficulties are only ever compared for equality and are atoms.     *)
(* Scores are integers in thousandths: 3 is 3000, 0.5 is 500.              *)
(***************************************************************************)
EXTENDS Integers, Sequences, FiniteSets, TLC

VARIABLES
    env,        \* process.env: the names of the variables set to a non-empty value
    cases,      \* CaseLoader.cases: the Map, as its entries in insertion order
    tree,       \* the cases directory: its entries as readdir lists them
    loadPos,    \* index, in the files of tree in traversal order, of the next file
                \* loadAllCases hands to loadCase
    pc,         \* "constructing" | "crashed" | "loading" | "idle" | "awaitIndex" |
                \* "responded"
    call,       \* the tool call being handled (NoCall when there is none)
    response,   \* what the handled call returned (NoResponse when there is none)
    clients,    \* Case7HttpServer.clients: the Map's values in insertion order
    tokens,     \* Case7HttpServer.tokens: the Map's values in insertion order
    now,        \* Date.now(), in seconds
    http,       \* the last HTTP exchange: the request and what the route answered
    authCodes,  \* the authCodes Map of the server with the authorization-code
                \* grant: its entries in insertion order
    codesIssued,\* the number of authorization codes randomUUID() has produced
    indexPhase, \* indexCases: "off" | "batch" | "pause" | "completed" | "rejected"
    indexI,     \* indexCases: the loop variable i
    indexCalls, \* per document, its indexCase call: "none" | "embedding" |
                \* "upserting" | "done" | "failed"
    upserts,    \* per document, the number of index.upsert calls that succeeded
    pauses      \* the number of inter-batch pauses indexCases has begun

vars ==
    <<env, cases, tree, loadPos, pc, call, response, clients, tokens, now, http,
      authCodes, codesIssued, indexPhase, indexI, indexCalls, upserts, pauses>>

\* the state of the authorization-code grant
oauthVars == <<authCodes, codesIssued>>

\* the state of a run of indexCases
indexVars == <<indexPhase, indexI, indexCalls, upserts, pauses>>

\* no indexCases has been called
NoIndexing ==
    /\ indexPhase = "off" /\ indexI = 0 /\ indexCalls = <<>> /\ upserts = <<>>
    /\ pauses = 0

\* the state of the HTTP layer
httpVars == <<clients, tokens, now, http>>

Undefined == "undefined"
NoCall == [tool |-> "none"]
NoResponse == [kind |-> "none"]
NoHttp == [route |-> "none"]

(***************************************************************************)
(* JavaScript string primitives                                            *)
(***************************************************************************)
UpperChars == <<"A", "B", "C", "D", "E", "F", "G", "H", "I", "J", "K", "L", "M",
                "N", "O", "P", "Q", "R", "S", "T", "U", "V", "W", "X", "Y", "Z">>
LowerChars == <<"a", "b", "c", "d", "e", "f", "g", "h", "i", "j", "k", "l", "m",
                "n", "o", "p", "q", "r", "s", "t", "u", "v", "w", "x", "y", "z">>

\* String.prototype.toLowerCase, one character
lowerChar(c) ==
    IF \E i \in 1..Len(UpperChars) : UpperChars[i] = c
    THEN LowerChars[CHOOSE i \in 1..Len(UpperChars) : UpperChars[i] = c]
    ELSE c

\* String.prototype.toLowerCase
toLowerCase(s) == [i \in 1..Len(s) |-> lowerChar(s[i])]

\* the characters \s matches
Whitespace == {" ", "\n"}

\* String.prototype.includes
includes(s, t) == \E i \in 0..(Len(s) - Len(t)) : SubSeq(s, i + 1, i + Len(t)) = t

\* String.prototype.startsWith
startsWith(s, t) == Len(s) >= Len(t) /\ SubSeq(s, 1, Len(t)) = t

\* String.prototype.substring(0, n)
substring0(s, n) == SubSeq(s, 1, IF n < 0 THEN 0 ELSE IF n > Len(s) THEN Len(s) ELSE n)

\* the first index >= i of s whose character is not in set, Len(s) + 1 if none
RECURSIVE skipRun(_, _, _)
skipRun(s, set, i) ==
    IF i > Len(s) \/ s[i] \notin set THEN i ELSE skipRun(s, set, i + 1)

\* the last index <= i of s whose character is not in set, 0 if none
RECURSIVE skipRunBack(_, _, _)
skipRunBack(s, set, i) ==
    IF i < 1 \/ s[i] \notin set THEN i ELSE skipRunBack(s, set, i - 1)

\* String.prototype.trim
trim(s) == SubSeq(s, skipRun(s, Whitespace, 1), skipRunBack(s, Whitespace, Len(s)))

\* the first index >= i of s whose character is in set, Len(s) + 1 if none
nextIn(s, set, i) ==
    IF \E j \in i..Len(s) : s[j] \in set
    THEN CHOOSE j \in i..Len(s) : s[j] \in set /\ \A k \in i..(j - 1) : s[k] \notin set
    ELSE Len(s) + 1

\* String.prototype.split(/[set]+/): the pieces between maximal runs of
\* separator characters; a leading or trailing run yields an empty piece
RECURSIVE splitRunsFrom(_, _, _)
splitRunsFrom(s, set, i) ==
    LET j == nextIn(s, set, i)
    IN  IF j > Len(s) THEN <<SubSeq(s, i, Len(s))>>
        ELSE <<SubSeq(s, i, j - 1)>> \o splitRunsFrom(s, set, skipRun(s, set, j))

splitRuns(s, set) == splitRunsFrom(s, set, 1)

\* String.prototype.split('\n'): every newline separates two pieces
RECURSIVE splitLinesFrom(_, _)
splitLinesFrom(s, i) ==
    LET j == nextIn(s, {"\n"}, i)
    IN  IF j > Len(s) THEN <<SubSeq(s, i, Len(s))>>
        ELSE <<SubSeq(s, i, j - 1)>> \o splitLinesFrom(s, j + 1)

splitLines(s) == splitLinesFrom(s, 1)

\* Array.prototype.join(sep)
RECURSIVE join(_, _)
join(pieces, sep) ==
    IF Len(pieces) = 0 THEN <<>>
    ELSE IF Len(pieces) = 1 THEN pieces[1]
    ELSE pieces[1] \o sep \o join(Tail(pieces), sep)

(***************************************************************************)
(* RegExp(term, 'g') as performKeywordSearch uses it.  The pattern         *)
(* language covered: ordinary characters, '.', the quantifier '+' and an   *)
(* opening '(' (which, never closed here, makes the pattern invalid).      *)
(***************************************************************************)
\* new RegExp(term) throws SyntaxError: "nothing to repeat" or "unterminated group"
regexThrows(term) ==
    \/ \E i \in 1..Len(term) : term[i] = "("
    \/ \E i \in 1..Len(term) : term[i] = "+" /\ (i = 1 \/ term[i - 1] = "+")

\* the pattern's atoms: each character other than '+', with whether '+' follows it
RECURSIVE regexAtoms(_, _)
regexAtoms(term, i) ==
    IF i > Len(term) THEN <<>>
    ELSE IF term[i] = "+" THEN regexAtoms(term, i + 1)
    ELSE <<[ch |-> term[i], plus |-> (i < Len(term) /\ term[i + 1] = "+")]>>
         \o regexAtoms(term, i + 1)

\* one atom against one character ('.' matches all but line terminators)
atomMatches(atom, c) == IF atom.ch = "." THEN c # "\n" ELSE atom.ch = c

\* how many consecutive characters of text from index i the atom matches
RECURSIVE atomRun(_, _, _)
atomRun(text, atom, i) ==
    IF i > Len(text) \/ ~atomMatches(atom, text[i]) THEN 0
    ELSE 1 + atomRun(text, atom, i + 1)

\* the index after the match of atoms[k..] that starts at index i of text, or 0
\* when there is none; a quantified atom takes the longest run first and gives
\* characters back (tryRun: n characters, then n - 1, ... down to 1)
RECURSIVE matchEnd(_, _, _, _)
RECURSIVE tryRun(_, _, _, _, _)
matchEnd(text, atoms, k, i) ==
    IF k > Len(atoms) THEN i
    ELSE IF i > Len(text) \/ ~atomMatches(atoms[k], text[i]) THEN 0
    ELSE IF atoms[k].plus
         THEN tryRun(text, atoms, k, i, atomRun(text, atoms[k], i))
         ELSE matchEnd(text, atoms, k + 1, i + 1)
tryRun(text, atoms, k, i, n) ==
    IF n < 1 THEN 0
    ELSE LET end == matchEnd(text, atoms, k + 1, i + n)
         IN  IF end # 0 THEN end ELSE tryRun(text, atoms, k, i, n - 1)

\* text.match(re) with the 'g' flag: the number of matches found scanning left
\* to right, each search resuming at the index after the previous match
RECURSIVE countMatchesFrom(_, _, _)
countMatchesFrom(text, atoms, i) ==
    IF i > Len(text) \/ Len(atoms) = 0 THEN 0
    ELSE LET end == matchEnd(text, atoms, 1, i)
         IN  IF end # 0
             THEN 1 + countMatchesFrom(text, atoms, end)
             ELSE countMatchesFrom(text, atoms, i + 1)

countMatches(text, term) == countMatchesFrom(text, regexAtoms(term, 1), 1)

(***************************************************************************)
(* SearchService                                                           *)
(***************************************************************************)
TitleWeight == 3000
TagWeight == 2000
OccurrenceWeight == 500
DefaultLimit == 5
ExcerptMaxLength == 200
EllipsisLength == 3

SentenceEnd == {".", "!", "?"}

\* query.toLowerCase().split(/\s+/)
queryTokens(query) == splitRuns(toLowerCase(query), Whitespace)

\* ... .filter(term => term.length > 2)
keywordTerms(query) == SelectSeq(queryTokens(query), LAMBDA term : Len(term) > 2)

\* `${title} ${tags.join(' ')} ${content}`.toLowerCase()
searchText(caseItem) ==
    toLowerCase(caseItem.title \o <<" ">> \o join(caseItem.tags, <<" ">>)
                \o <<" ">> \o caseItem.content)

\* what one query term adds to a case's score
termScore(caseItem, text, term) ==
    (IF includes(toLowerCase(caseItem.title), term) THEN TitleWeight ELSE 0)
    + (IF \E t \in 1..Len(caseItem.tags) : includes(toLowerCase(caseItem.tags[t]), term)
       THEN TagWeight ELSE 0)
    + countMatches(text, term) * OccurrenceWeight

\* the loop over queryTerms, text being searchText(caseItem)
RECURSIVE scoreTerms(_, _, _)
scoreTerms(caseItem, text, terms) ==
    IF Len(terms) = 0 THEN 0
    ELSE termScore(caseItem, text, Head(terms)) + scoreTerms(caseItem, text, Tail(terms))

\* the score of one case
keywordScore(caseItem, terms) == scoreTerms(caseItem, searchText(caseItem), terms)

\* content.split(/[.!?]+/).map(s => s.trim()).filter(s => s.length > 0)
sentencesOf(content) ==
    LET pieces == splitRuns(content, SentenceEnd)
    IN  SelectSeq([i \in 1..Len(pieces) |-> trim(pieces[i])],
                  LAMBDA sentence : Len(sentence) > 0)

\* queryTerms.reduce(...): one point per query token the sentence includes
RECURSIVE sentenceScore(_, _)
sentenceScore(sentenceLower, terms) ==
    IF Len(terms) = 0 THEN 0
    ELSE (IF includes(sentenceLower, Head(terms)) THEN 1 ELSE 0)
         + sentenceScore(sentenceLower, Tail(terms))

\* mutant of bestSentenceFrom: a sentence that ties the best replaces it
RECURSIVE LastBestSentenceFrom(_, _, _, _, _)
LastBestSentenceFrom(sentences, terms, i, bestSentence, bestScore) ==
    IF i > Len(sentences) THEN bestSentence
    ELSE LET score == sentenceScore(toLowerCase(sentences[i]), terms)
         IN  IF score >= bestScore
             THEN LastBestSentenceFrom(sentences, terms, i + 1, sentences[i], score)
             ELSE LastBestSentenceFrom(sentences, terms, i + 1, bestSentence, bestScore)

\* the loop over sentences: the running best sentence, replaced only by a
\* strictly better one
RECURSIVE bestSentenceFrom(_, _, _, _, _)
bestSentenceFrom(sentences, terms, i, bestSentence, bestScore) ==
    IF i > Len(sentences) THEN bestSentence
    ELSE LET score == sentenceScore(toLowerCase(sentences[i]), terms)
         IN  IF score > bestScore
             THEN bestSentenceFrom(sentences, terms, i + 1, sentences[i], score)
             ELSE bestSentenceFrom(sentences, terms, i + 1, bestSentence, bestScore)

\* bestSentence at the end of the loop
bestSentenceOf(content, query) ==
    LET sentences == sentencesOf(content)
    IN  bestSentenceFrom(sentences, queryTokens(query), 1,
                         IF Len(sentences) > 0 THEN sentences[1] ELSE <<>>, 0)

\* mutant of createExcerptMax: the cut keeps maxLength characters before '...'
ExcerptCutAtMaxLength(content, query, maxLength) ==
    LET best == bestSentenceOf(content, query)
    IN  IF Len(best) > maxLength
        THEN substring0(best, maxLength) \o <<".", ".", ".">>
        ELSE best

createExcerptMax(content, query, maxLength) ==
    LET best == bestSentenceOf(content, query)
    IN  IF Len(best) > maxLength
        THEN substring0(best, maxLength - EllipsisLength) \o <<".", ".", ".">>
        ELSE best

createExcerpt(content, query) == createExcerptMax(content, query, ExcerptMaxLength)

\* Array.prototype.sort((a, b) => b.relevanceScore - a.relevanceScore): stable,
\* so an element goes after every element already placed whose score is >= its own
\* insertByScore of a sort that is not stable: an element goes before its equals
RECURSIVE UnstableInsertByScore(_, _, _)
UnstableInsertByScore(sorted, x, i) ==
    IF i > Len(sorted) THEN Append(sorted, x)
    ELSE IF sorted[i].relevanceScore <= x.relevanceScore
         THEN SubSeq(sorted, 1, i - 1) \o <<x>> \o SubSeq(sorted, i, Len(sorted))
         ELSE UnstableInsertByScore(sorted, x, i + 1)

RECURSIVE insertByScore(_, _, _)
insertByScore(sorted, x, i) ==
    IF i > Len(sorted) THEN Append(sorted, x)
    ELSE IF sorted[i].relevanceScore < x.relevanceScore
         THEN SubSeq(sorted, 1, i - 1) \o <<x>> \o SubSeq(sorted, i, Len(sorted))
         ELSE insertByScore(sorted, x, i + 1)

RECURSIVE sortFrom(_, _, _)
sortFrom(seq, i, sorted) ==
    IF i > Len(seq) THEN sorted
    ELSE sortFrom(seq, i + 1, insertByScore(sorted, seq[i], 1))

sortByScoreDesc(seq) == sortFrom(seq, 1, <<>>)

keywordResult(caseItem, queryTerms, query) ==
    [id |-> caseItem.id, title |-> caseItem.title, category |-> caseItem.category,
     tags |-> caseItem.tags,
     relevanceScore |-> keywordScore(caseItem, queryTerms),
     excerpt |-> createExcerpt(caseItem.content, query)]

\* performKeywordSearch: threw is TRUE when building a RegExp from a term throws,
\* which happens as soon as there is a case to score
performKeywordSearch(caseList, query) ==
    LET queryTerms == keywordTerms(query)
    IN  IF Len(caseList) > 0
           /\ \E t \in 1..Len(queryTerms) : regexThrows(queryTerms[t])
        THEN [threw |-> TRUE, matches |-> <<>>]
        ELSE [threw |-> FALSE,
              matches |-> sortByScoreDesc(
                  SelectSeq([i \in 1..Len(caseList) |->
                                keywordResult(caseList[i], queryTerms, query)],
                            LAMBDA result : result.relevanceScore > 0))]

(***************************************************************************)
(* VectorService.constructor.  The environment is the set of the names of  *)
(* the variables that are set to a non-empty string.                       *)
(***************************************************************************)
EnvNames == {"UPSTASH_VECTOR_URL", "UPSTASH_VECTOR_TOKEN", "OPENAI_API_KEY"}

\* mutant of vectorServiceThrows: the OpenAI key is not checked
UpstashOnlyCheck(environment) ==
    "UPSTASH_VECTOR_URL" \notin environment \/ "UPSTASH_VECTOR_TOKEN" \notin environment

\* TRUE when the constructor throws
vectorServiceThrows(environment) ==
    \/ "UPSTASH_VECTOR_URL" \notin environment \/ "UPSTASH_VECTOR_TOKEN" \notin environment
    \/ "OPENAI_API_KEY" \notin environment

(***************************************************************************)
(* VectorService.searchSimilar.  reply is what the embedding call and the  *)
(* index query do for this call: either may fail, else the index returns   *)
(* reply.hits, each hit an id and a score.                                 *)
(***************************************************************************)
\* searchSimilar with a catch block that rethrows
RethrowingSearchSimilar(reply) ==
    [threw |-> reply.embedFails \/ reply.queryFails,
     results |-> IF reply.embedFails \/ reply.queryFails THEN <<>> ELSE reply.hits]

\* the catch block logs and returns []
searchSimilar(reply) ==
    [threw |-> FALSE,
     results |-> IF reply.embedFails \/ reply.queryFails THEN <<>> ELSE reply.hits]

(***************************************************************************)
(* SearchService.searchCases.  The result Map is the sequence of its       *)
(* values in insertion order: set() of a present key replaces the value in *)
(* place, set() of a new key appends.                                      *)
(***************************************************************************)
mapHas(results, id) == \E i \in 1..Len(results) : results[i].id = id

\* a Map whose set() leaves a present key as it is
MapSetKeepFirst(results, value) ==
    IF mapHas(results, value.id) THEN results ELSE Append(results, value)

\* mutant of mapSet: a Map whose set() always adds an entry
MapSetAppend(results, value) == Append(results, value)

mapSet(results, value) ==
    IF mapHas(results, value.id)
    THEN [i \in 1..Len(results) |->
             IF results[i].id = value.id THEN value ELSE results[i]]
    ELSE Append(results, value)

\* const { category, difficulty, limit = 5 } = options
limitOf(options) == IF Len(options.limit) = 0 THEN DefaultLimit ELSE options.limit[1]

\* filterCases without the difficulty filter
CategoryOnlyFilter(allCases, options) ==
    SelectSeq(allCases, LAMBDA c :
        options.category # Undefined => c.category = options.category)

\* the two filter() calls; an omitted option is falsy and filters nothing
filterCases(allCases, options) ==
    SelectSeq(allCases, LAMBDA c :
        /\ (options.category # Undefined => c.category = options.category)
        /\ (options.difficulty # Undefined => c.difficulty = options.difficulty))

\* filteredCases.find(c => c.id === id): its index, 0 when there is none
findCase(caseList, id) ==
    IF \E i \in 1..Len(caseList) : caseList[i].id = id
    THEN CHOOSE i \in 1..Len(caseList) :
            caseList[i].id = id /\ \A j \in 1..(i - 1) : caseList[j].id # id
    ELSE 0

\* the loop over vectorResults
RECURSIVE vectorMerge(_, _, _, _, _)
vectorMerge(filteredCases, vectorResults, query, i, results) ==
    IF i > Len(vectorResults) THEN results
    ELSE LET k == findCase(filteredCases, vectorResults[i].id)
         IN  IF k = 0
             THEN vectorMerge(filteredCases, vectorResults, query, i + 1, results)
             ELSE vectorMerge(filteredCases, vectorResults, query, i + 1,
                    mapSet(results,
                        [id |-> filteredCases[k].id,
                         title |-> filteredCases[k].title,
                         category |-> filteredCases[k].category,
                         tags |-> filteredCases[k].tags,
                         relevanceScore |-> vectorResults[i].score,
                         excerpt |-> createExcerpt(filteredCases[k].content, query)]))

\* keywordCandidates that hands every filtered case to the keyword search
AllCandidates(filteredCases, results) == filteredCases

\* the cases handed to performKeywordSearch
keywordCandidates(filteredCases, results) ==
    SelectSeq(filteredCases, LAMBDA c : ~mapHas(results, c.id))

\* keywordMerge without the test of results.size
RECURSIVE UncheckedKeywordMerge(_, _, _, _)
UncheckedKeywordMerge(matches, limit, i, results) ==
    IF i > Len(matches) THEN results
    ELSE UncheckedKeywordMerge(matches, limit, i + 1, mapSet(results, matches[i]))

\* the loop over keywordMatches
RECURSIVE keywordMerge(_, _, _, _)
keywordMerge(matches, limit, i, results) ==
    IF i > Len(matches) THEN results
    ELSE keywordMerge(matches, limit, i + 1,
            IF Len(results) < limit THEN mapSet(results, matches[i]) ELSE results)

\* slice0 without the cut
NoSlice(seq, n) == seq

\* Array.prototype.slice(0, n)
slice0(seq, n) == SubSeq(seq, 1, IF n > Len(seq) THEN Len(seq) ELSE n)

\* the result Map as it is when the final sort reads it; threw when the
\* keyword search threw
resultMap(allCases, query, options, vectorResults) ==
    LET filteredCases == filterCases(allCases, options)
        vectorMap == vectorMerge(filteredCases, vectorResults, query, 1, <<>>)
        keyword == performKeywordSearch(keywordCandidates(filteredCases, vectorMap), query)
    IN  [threw |-> keyword.threw,
         entries |-> keywordMerge(keyword.matches, limitOf(options), 1, vectorMap)]

\* searchCases whose catch block returns what the Map holds
SearchCasesKeepingVector(allCases, query, options, reply) ==
    slice0(sortByScoreDesc(resultMap(allCases, query, options,
                               searchSimilar(reply).results).entries),
           limitOf(options))

\* searchCases: what the call returns; the catch block returns []
searchCases(allCases, query, options, reply) ==
    LET similar == searchSimilar(reply)
        map == resultMap(allCases, query, options, similar.results)
    IN  IF similar.threw \/ map.threw THEN <<>>
        ELSE slice0(sortByScoreDesc(map.entries), limitOf(options))

(***************************************************************************)
(* CaseLoader                                                              *)
(***************************************************************************)
Categories == {"mobile", "web", "backend", "tools", "integrations"}
Difficulties == {"beginner", "intermediate", "advanced"}
Digits == {"0", "1", "2", "3", "4", "5", "6", "7", "8", "9"}

\* /^\d{4}-\d{2}-\d{2}$/
isDate(s) ==
    /\ Len(s) = 10
    /\ \A i \in {1, 2, 3, 4, 6, 7, 9, 10} : s[i] \in Digits
    /\ s[5] = "-" /\ s[8] = "-"

\* CaseFrontmatterSchema.parse succeeds
validFrontmatter(fm) ==
    /\ fm.id # ""
    /\ Len(fm.title) >= 1
    /\ fm.category \in Categories
    /\ Len(fm.tags) >= 1
    /\ fm.difficulty \in Difficulties
    /\ isDate(fm.last_updated)

\* getCategoryFromPath: the directory under 'cases' when it names a category
getCategoryFromPath(filePath) ==
    LET casesIndex == IF \E i \in 1..Len(filePath) : filePath[i] = "cases"
                      THEN CHOOSE i \in 1..Len(filePath) :
                              /\ filePath[i] = "cases"
                              /\ \A j \in 1..(i - 1) : filePath[j] # "cases"
                      ELSE 0
    IN  IF casesIndex # 0 /\ casesIndex < Len(filePath)
           /\ filePath[casesIndex + 1] \in Categories
        THEN filePath[casesIndex + 1]
        ELSE "tools"

\* mutant of loadCase: a file that cannot be loaded empties the Map
LoadCaseOrClear(map, file) ==
    IF ~file.readable \/ ~validFrontmatter(file.frontmatter) THEN <<>>
    ELSE mapSet(map,
            [id |-> file.frontmatter.id,
             title |-> file.frontmatter.title,
             category |-> IF file.frontmatter.category # Undefined
                          THEN file.frontmatter.category
                          ELSE getCategoryFromPath(file.path),
             tags |-> file.frontmatter.tags,
             difficulty |-> file.frontmatter.difficulty,
             lastUpdated |-> file.frontmatter.last_updated,
             content |-> trim(file.content),
             filePath |-> file.path])

\* loadCase: the Map after one file; a file that cannot be read or whose
\* frontmatter does not validate is logged and leaves the Map as it is
loadCase(map, file) ==
    IF ~file.readable \/ ~validFrontmatter(file.frontmatter) THEN map
    ELSE mapSet(map,
            [id |-> file.frontmatter.id,
             title |-> file.frontmatter.title,
             category |-> IF file.frontmatter.category # Undefined
                          THEN file.frontmatter.category
                          ELSE getCategoryFromPath(file.path),
             tags |-> file.frontmatter.tags,
             difficulty |-> file.frontmatter.difficulty,
             lastUpdated |-> file.frontmatter.last_updated,
             content |-> trim(file.content),
             filePath |-> file.path])

\* a directory: listable is FALSE when readdir throws on it
directory(listable, entries) == [listable |-> listable, entries |-> entries]

\* entry.isDirectory()
isDirectory(entry) == "entries" \in DOMAIN entry

\* the file names that end with '.md'
MarkdownNames == {"a.md", "b.md", "c.md", "a2.md", "d.md", "e.md"}

\* entry.isFile() && entry.name.endsWith('.md')
isMarkdownFile(entry) == ~isDirectory(entry) /\ entry.path[Len(entry.path)] \in MarkdownNames

\* loadCasesFromDirectory: the files it hands to loadCase, in order; a directory
\* whose readdir throws contributes none
RECURSIVE filesFrom(_, _)
filesFrom(entries, i) ==
    IF i > Len(entries) THEN <<>>
    ELSE (IF isDirectory(entries[i])
          THEN IF entries[i].listable THEN filesFrom(entries[i].entries, 1) ELSE <<>>
          ELSE IF isMarkdownFile(entries[i]) THEN <<entries[i]>> ELSE <<>>)
         \o filesFrom(entries, i + 1)

filesOf(dir) == IF dir.listable THEN filesFrom(dir.entries, 1) ELSE <<>>

\* getCase that falls back to the first entry for an unknown id
GetCaseOrFirst(map, id) ==
    IF findCase(map, id) = 0 /\ Len(map) > 0 THEN 1 ELSE findCase(map, id)

\* getCase: the index of the entry, 0 for undefined
getCase(map, id) == findCase(map, id)

\* getAllCases
getAllCases(map) == map

(***************************************************************************)
(* The files the cases directory may hold                                  *)
(***************************************************************************)
TitleA == <<"P", "a", "y">>
TitleB == <<"W", "e", "b">>
TitleC == <<"A", "p", "i">>
ContentA == <<"i", "n", "t", "r", "o", "\n", "#", "#", " ", "S", "e", "t", "u", "p", "\n", "r", "u", "n", "\n", "\n", "#", "#", " ", "U", "s", "a", "g", "e", "\n", "p", "a", "y", "\n", "#", "#", "#", " ", "M", "o", "r", "e", "\n", "P", "a", "y", ".">>
ContentB == <<"#", "#", " ", "U", "s", "a", "g", "e", "\n", "l", "i", "s", "t", ".", " ", "p", "a", "y", " ", "i", "t", "!", "\n">>
ContentC == <<"#", "\n", "r", "a", "w">>
ContentA2 == <<"n", "e", "w">>
TagPay == <<"p", "a", "y">>
TagWeb == <<"w", "e", "b">>
TagApi == <<"a", "p", "i">>
SomeDate == <<"2", "0", "2", "4", "-", "0", "1", "-", "1", "5">>

FileA ==
    [path |-> <<"cases", "web", "a.md">>, readable |-> TRUE, content |-> ContentA,
     frontmatter |-> [id |-> "a", title |-> TitleA, category |-> "web",
                      tags |-> <<TagPay>>, difficulty |-> "beginner",
                      last_updated |-> SomeDate]]
FileB ==
    [path |-> <<"cases", "web", "b.md">>, readable |-> TRUE, content |-> ContentB,
     frontmatter |-> [id |-> "b", title |-> TitleB, category |-> "web",
                      tags |-> <<TagWeb>>, difficulty |-> "advanced",
                      last_updated |-> SomeDate]]
FileC ==
    [path |-> <<"cases", "web", "c.md">>, readable |-> TRUE, content |-> ContentC,
     frontmatter |-> [id |-> "c", title |-> TitleC, category |-> "web",
                      tags |-> <<TagApi, TagPay>>, difficulty |-> "beginner",
                      last_updated |-> SomeDate]]
\* a second file with the id of FileA
FileA2 ==
    [path |-> <<"cases", "mobile", "a2.md">>, readable |-> TRUE, content |-> ContentA2,
     frontmatter |-> [id |-> "a", title |-> TitleC, category |-> "mobile",
                      tags |-> <<TagApi>>, difficulty |-> "advanced",
                      last_updated |-> SomeDate]]
\* a file whose frontmatter has no category
FileNoCategory ==
    [path |-> <<"cases", "web", "d.md">>, readable |-> TRUE, content |-> ContentA2,
     frontmatter |-> [id |-> "d", title |-> TitleA, category |-> Undefined,
                      tags |-> <<TagPay>>, difficulty |-> "beginner",
                      last_updated |-> SomeDate]]

Trees ==
    { directory(TRUE, <<FileA, FileB, FileC>>),
      directory(TRUE, <<FileC, FileNoCategory, FileB, FileA>>),
      directory(TRUE, <<FileA, FileB, FileA2>>) }

CaseIds == {"a", "b", "c"}

(***************************************************************************)
(* The get-case tool: Case7HttpServer.handleGetCase                        *)
(***************************************************************************)
CharsPerToken == 4
MinMaxTokens == 500
MaxMaxTokens == 16000
DefaultMaxTokens == 8000
MinSchemaLimit == 1
MaxSchemaLimit == 20

TruncationMarker ==
    <<"\n", "\n", "[", "C", "o", "n", "t", "e", "n", "t", " ", "t", "r", "u", "n",
    "c", "a", "t", "e", "d", " ", "d", "u", "e", " ", "t", "o", " ", "t", "o", "k",
    "e", "n", " ", "l", "i", "m", "i", "t", ".", ".", ".", "]">>

\* line.replace(/^#+\s*/, '').toLowerCase()
headerTextOf(line) ==
    toLowerCase(SubSeq(line, skipRun(line, Whitespace, skipRun(line, {"#"}, 1)), Len(line)))

\* sections.some(section => headerText.includes(section.toLowerCase()) ||
\*                          section.toLowerCase().includes(headerText))
sectionWanted(headerText, sections) ==
    \E k \in 1..Len(sections) :
        \/ includes(headerText, toLowerCase(sections[k]))
        \/ includes(toLowerCase(sections[k]), headerText)

\* the loop over lines: includeSection changes at every line that starts with '#'
RECURSIVE filterLines(_, _, _, _)
filterLines(lines, sections, i, includeSection) ==
    IF i > Len(lines) THEN <<>>
    ELSE LET include == IF startsWith(lines[i], <<"#">>)
                        THEN sectionWanted(headerTextOf(lines[i]), sections)
                        ELSE includeSection
         IN  (IF include THEN <<lines[i]>> ELSE <<>>)
             \o filterLines(lines, sections, i + 1, include)

\* the lines filterCaseSections keeps, before they are joined
filteredLinesOf(content, sections) == filterLines(splitLines(content), sections, 1, FALSE)

filterCaseSections(content, sections) ==
    trim(join(filteredLinesOf(content, sections), <<"\n">>))

\* mutant of truncateContent: a content of exactly maxChars is cut too
TruncateAtOrOver(content, maxTokens) ==
    IF Len(content) >= maxTokens * CharsPerToken
    THEN substring0(content, maxTokens * CharsPerToken) \o TruncationMarker
    ELSE content

\* content.substring(0, maxChars) + marker when content.length > maxChars
truncateContent(content, maxTokens) ==
    IF Len(content) > maxTokens * CharsPerToken
    THEN substring0(content, maxTokens * CharsPerToken) \o TruncationMarker
    ELSE content

handleGetCase(map, params) ==
    LET k == getCase(map, params.id)
    IN  IF k = 0
        THEN [isError |-> TRUE, kind |-> "not-found", id |-> params.id]
        ELSE [isError |-> FALSE, kind |-> "case",
              id |-> map[k].id, title |-> map[k].title, category |-> map[k].category,
              tags |-> map[k].tags, difficulty |-> map[k].difficulty,
              last_updated |-> map[k].lastUpdated,
              content |-> truncateContent(
                  IF Len(params.sections) > 0
                  THEN filterCaseSections(map[k].content, params.sections)
                  ELSE map[k].content,
                  params.maxTokens)]

\* GetCaseSchema.parse: the parsed params, maxTokens defaulted; ok is FALSE when
\* parse throws
parseGetCase(args) ==
    [ok |-> /\ args.id # ""
            /\ (Len(args.maxTokens) > 0 =>
                    args.maxTokens[1] >= MinMaxTokens /\ args.maxTokens[1] <= MaxMaxTokens),
     params |-> [id |-> args.id, sections |-> args.sections,
                 maxTokens |-> IF Len(args.maxTokens) = 0 THEN DefaultMaxTokens
                               ELSE args.maxTokens[1]]]

\* mutant of parseSearchCases: the schema without min and max on limit
ParseWithoutLimitRange(args) ==
    [ok |-> /\ Len(args.query) >= 1
            /\ args.category \in Categories \cup {Undefined}
            /\ args.difficulty \in Difficulties \cup {Undefined},
     params |-> [query |-> args.query, category |-> args.category,
                 difficulty |-> args.difficulty,
                 limit |-> IF Len(args.limit) = 0 THEN <<DefaultLimit>> ELSE args.limit]]

\* SearchCasesSchema.parse: the parsed params, limit defaulted
parseSearchCases(args) ==
    [ok |-> /\ Len(args.query) >= 1
            /\ args.category \in Categories \cup {Undefined}
            /\ args.difficulty \in Difficulties \cup {Undefined}
            /\ (Len(args.limit) > 0 =>
                    args.limit[1] >= MinSchemaLimit /\ args.limit[1] <= MaxSchemaLimit),
     params |-> [query |-> args.query, category |-> args.category,
                 difficulty |-> args.difficulty,
                 limit |-> IF Len(args.limit) = 0 THEN <<DefaultLimit>> ELSE args.limit]]

\* Math.round(score * 100) / 100 on thousandths: to the nearest ten, halves up
roundScore(score) == ((score + 5) \div 10) * 10

\* handleSearchCases: the object it serialises
searchResponse(query, results) ==
    [isError |-> FALSE, kind |-> "search", query |-> query,
     total_results |-> Len(results),
     cases |-> [i \in 1..Len(results) |->
                  [id |-> results[i].id, title |-> results[i].title,
                   category |-> results[i].category, tags |-> results[i].tags,
                   relevance_score |-> roundScore(results[i].relevanceScore),
                   excerpt |-> results[i].excerpt]],
     results |-> results]

(***************************************************************************)
(* Inputs                                                                  *)
(***************************************************************************)
MaxLimit == 2
MaxHits == 3

QueryPay == <<"p", "a", "y">>
QueryWebApi == <<"W", "e", "b", " ", " ", "a", "p", "i">>
SecUsage == <<"u", "s", "a", "g", "e">>
SecSetup == <<"S", "e", "t", "u", "p">>
SecMore == <<"m", "o", "r", "e", " ", "i", "n", "f", "o">>

Queries == {QueryPay, QueryWebApi}
VectorScores == {500, 1000}
Hits == [id : CaseIds, score : VectorScores]

\* the hit lists an index query with topK may answer
hitLists(topK) ==
    UNION {[1..n -> Hits] : n \in 0..(IF topK < MaxHits THEN topK ELSE MaxHits)}

IndexReplies(topK) ==
    {[embedFails |-> TRUE, queryFails |-> FALSE, hits |-> <<>>],
     [embedFails |-> FALSE, queryFails |-> TRUE, hits |-> <<>>]}
    \cup {[embedFails |-> FALSE, queryFails |-> FALSE, hits |-> h] : h \in hitLists(topK)}

SearchArgs ==
    [query : Queries \cup {<<>>},
     category : {Undefined, "web", "desktop"},
     difficulty : {Undefined, "beginner", "expert"},
     limit : {<<>>, <<MaxSchemaLimit + 1>>} \cup {<<n>> : n \in 0..MaxLimit}]

SectionLists == {<<>>, <<SecUsage>>, <<SecSetup, SecMore>>}

GetCaseArgs ==
    [id : CaseIds \cup {"nope", ""},
     sections : SectionLists,
     maxTokens : {<<>>, <<MinMaxTokens>>, <<MinMaxTokens + 1>>, <<MinMaxTokens - 1>>}]

validationError == [isError |-> TRUE, kind |-> "validation"]

(***************************************************************************)
(* Behaviour                                                               *)
(***************************************************************************)
Init ==
    /\ env \in SUBSET EnvNames
    /\ cases = <<>>
    /\ tree \in Trees
    /\ loadPos = 1
    /\ pc = "constructing"
    /\ call = NoCall
    /\ response = NoResponse
    /\ clients = <<>>
    /\ tokens = <<>>
    /\ now = 0
    /\ http = NoHttp
    /\ authCodes = <<>> /\ codesIssued = 0
    /\ NoIndexing

\* new Case7HttpServer(): the constructor returns and start() begins initialize()
Construct ==
    /\ pc = "constructing"
    /\ ~vectorServiceThrows(env)
    /\ pc' = "loading"
    /\ UNCHANGED <<env, cases, tree, loadPos, call, response>>
    /\ UNCHANGED httpVars
    /\ UNCHANGED <<oauthVars, indexVars>>

\* new Case7HttpServer(): new VectorService() throws, nothing catches it and the
\* process ends before start() is called
ConstructThrows ==
    /\ pc = "constructing"
    /\ vectorServiceThrows(env)
    /\ pc' = "crashed"
    /\ UNCHANGED <<env, cases, tree, loadPos, call, response>>
    /\ UNCHANGED httpVars
    /\ UNCHANGED <<oauthVars, indexVars>>

\* loadAllCases, one file: loadCasesFromDirectory hands the next file to loadCase
LoadCase ==
    /\ pc = "loading"
    /\ loadPos <= Len(filesOf(tree))
    /\ cases' = loadCase(cases, filesOf(tree)[loadPos])
    /\ loadPos' = loadPos + 1
    /\ UNCHANGED <<env, tree, pc, call, response>>
    /\ UNCHANGED httpVars
    /\ UNCHANGED <<oauthVars, indexVars>>

ListenWithoutAwait(dir, pos) == TRUE

\* await this.initialize() in start(): loadAllCases has gone through the tree
initialized(dir, pos) == pos > Len(filesOf(dir))

\* initialize() has resolved: start() calls listen and requests are served
Listen ==
    /\ pc = "loading"
    /\ initialized(tree, loadPos)
    /\ pc' = "idle"
    /\ UNCHANGED <<env, cases, tree, loadPos, call, response>>
    /\ UNCHANGED httpVars
    /\ UNCHANGED <<oauthVars, indexVars>>

\* CallTool 'search-cases' whose arguments SearchCasesSchema.parse rejects
SearchCasesRejected ==
    /\ pc = "idle"
    /\ \E args \in SearchArgs :
        /\ ~parseSearchCases(args).ok
        /\ call' = [tool |-> "search-cases", args |-> args]
        /\ response' = validationError
    /\ pc' = "responded"
    /\ UNCHANGED <<env, cases, tree, loadPos>>
    /\ UNCHANGED httpVars
    /\ UNCHANGED <<oauthVars, indexVars>>

\* CallTool 'search-cases' up to the await of searchSimilar
SearchCasesBegin ==
    /\ pc = "idle"
    /\ \E args \in SearchArgs :
        /\ parseSearchCases(args).ok
        /\ call' = [tool |-> "search-cases", args |-> args]
    /\ pc' = "awaitIndex"
    /\ UNCHANGED <<env, cases, tree, loadPos, response>>
    /\ UNCHANGED httpVars
    /\ UNCHANGED <<oauthVars, indexVars>>

\* the embedding call and the index query settle; searchCases runs to its
\* return and handleSearchCases builds the response
SearchCasesFinish ==
    /\ pc = "awaitIndex"
    /\ LET params == parseSearchCases(call.args).params
       IN  \E reply \in IndexReplies(2 * params.limit[1]) :
             /\ call' = [tool |-> "search-cases", args |-> call.args, reply |-> reply]
             /\ response' = searchResponse(params.query,
                    searchCases(getAllCases(cases), params.query,
                        [category |-> params.category, difficulty |-> params.difficulty,
                         limit |-> params.limit],
                        reply))
    /\ pc' = "responded"
    /\ UNCHANGED <<env, cases, tree, loadPos>>
    /\ UNCHANGED httpVars
    /\ UNCHANGED <<oauthVars, indexVars>>

\* CallTool 'get-case'
GetCase ==
    /\ pc = "idle"
    /\ \E args \in GetCaseArgs :
        /\ call' = [tool |-> "get-case", args |-> args]
        /\ response' = IF parseGetCase(args).ok
                       THEN handleGetCase(cases, parseGetCase(args).params)
                       ELSE validationError
    /\ pc' = "responded"
    /\ UNCHANGED <<env, cases, tree, loadPos>>
    /\ UNCHANGED httpVars
    /\ UNCHANGED <<oauthVars, indexVars>>

\* the transport sends the response; the server is ready for the next call
Respond ==
    /\ pc = "responded"
    /\ pc' = "idle"
    /\ call' = NoCall
    /\ response' = NoResponse
    /\ UNCHANGED <<env, cases, tree, loadPos>>
    /\ UNCHANGED httpVars
    /\ UNCHANGED <<oauthVars, indexVars>>

Next ==
    \/ Construct
    \/ ConstructThrows
    \/ LoadCase
    \/ Listen
    \/ SearchCasesRejected
    \/ SearchCasesBegin
    \/ SearchCasesFinish
    \/ GetCase
    \/ Respond

Spec == Init /\ [][Next]_vars

(***************************************************************************)
(* The loader on directories that hold files it cannot load: an unreadable *)
(* file, a file with invalid frontmatter, a file that is not markdown, a   *)
(* sub-directory readdir fails on, and a sub-directory with a second file  *)
(* of id a.                                                                *)
(***************************************************************************)
MaxEntries == 3

FileUnreadable ==
    [path |-> <<"cases", "web", "e.md">>, readable |-> FALSE, content |-> ContentA2,
     frontmatter |-> [id |-> "e", title |-> TitleA, category |-> "web",
                      tags |-> <<TagPay>>, difficulty |-> "beginner",
                      last_updated |-> SomeDate]]
FileNotes ==
    [path |-> <<"cases", "web", "notes.txt">>, readable |-> TRUE, content |-> ContentA2,
     frontmatter |-> [id |-> "n", title |-> TitleA, category |-> "web",
                      tags |-> <<TagPay>>, difficulty |-> "beginner",
                      last_updated |-> SomeDate]]
FileInLocked == [FileC EXCEPT !.path = <<"cases", "backend", "c.md">>]
DirMobile == directory(TRUE, <<FileA2>>)
DirBackend == directory(FALSE, <<FileInLocked>>)

EntryPool ==
    {FileA, FileB, FileUnreadable, FileNoCategory, FileNotes, DirMobile, DirBackend}

\* the directories of at most MaxEntries entries, each entry at most once
LoaderTrees ==
    {directory(listable, entries) :
        listable \in BOOLEAN,
        entries \in UNION {{e \in [1..n -> EntryPool] :
                               \A i, j \in 1..n : i # j => e[i] # e[j]} : n \in 0..MaxEntries}}

InitLoader ==
    /\ env = EnvNames
    /\ cases = <<>>
    /\ tree \in LoaderTrees
    /\ loadPos = 1
    /\ pc = "constructing"
    /\ call = NoCall
    /\ response = NoResponse
    /\ clients = <<>>
    /\ tokens = <<>>
    /\ now = 0
    /\ http = NoHttp
    /\ authCodes = <<>> /\ codesIssued = 0
    /\ NoIndexing

\* the directories a second call of loadAllCases finds
ReloadTrees ==
    { directory(TRUE, <<FileA, DirMobile>>),
      directory(TRUE, <<FileB>>),
      directory(FALSE, <<FileA>>) }

\* Map.prototype.clear
clear(map) == <<>>

\* loadAllCases called again on the same CaseLoader after the directory changed:
\* this.cases.clear(), then the walk starts over.  call keeps the store the
\* call found.
LoadAllCasesAgain ==
    /\ pc = "idle"
    /\ call = NoCall
    /\ \E dir \in ReloadTrees : tree' = dir
    /\ cases' = clear(cases)
    /\ loadPos' = 1
    /\ pc' = "loading"
    /\ call' = [tool |-> "loadAllCases", storeBefore |-> cases]
    /\ UNCHANGED <<env, response>>
    /\ UNCHANGED httpVars
    /\ UNCHANGED <<oauthVars, indexVars>>

NextLoader ==
    \/ Construct
    \/ LoadCase
    \/ Listen
    \/ LoadAllCasesAgain

SpecLoader == InitLoader /\ [][NextLoader]_vars

(***************************************************************************)
(* Documents long enough for get-case to truncate them: a Setup section,   *)
(* then a Usage section of filler lines.  The lengths sit around           *)
(* MinMaxTokens * CharsPerToken, the smallest cut a valid call can ask for *)
(***************************************************************************)
FillerLineLength == 50
SetupPart == <<"#", "#", " ", "S", "e", "t", "u", "p", "\n", "r", "u", "n", "\n">>
UsagePart == <<"#", "#", " ", "U", "s", "a", "g", "e", "\n">>

fillerLines(n) == [i \in 1..n |-> IF i % FillerLineLength = 0 THEN "\n" ELSE "x"]

\* a document of n characters
longContent(n) == SetupPart \o UsagePart \o fillerLines(n - Len(SetupPart) - Len(UsagePart))

SmallestCut == MinMaxTokens * CharsPerToken

FileAtCut == [FileA EXCEPT !.content = longContent(SmallestCut)]
FileOverCut == [FileB EXCEPT !.content = longContent(SmallestCut + 1)]
\* its Usage section alone has SmallestCut characters
FileUsageAtCut == [FileC EXCEPT !.content = longContent(SmallestCut + Len(SetupPart))]
\* its Usage section alone has SmallestCut + 1 characters
FileUsageOverCut == [FileA EXCEPT !.content = longContent(SmallestCut + Len(SetupPart) + 1)]

LongTrees ==
    { directory(TRUE, <<FileAtCut, FileOverCut, FileUsageAtCut>>),
      directory(TRUE, <<FileUsageOverCut, FileOverCut, FileUsageAtCut>>),
      directory(TRUE, <<FileUsageAtCut, FileOverCut>>) }

InitLongDocs ==
    /\ env = EnvNames
    /\ cases = <<>>
    /\ tree \in LongTrees
    /\ loadPos = 1
    /\ pc = "constructing"
    /\ call = NoCall
    /\ response = NoResponse
    /\ clients = <<>>
    /\ tokens = <<>>
    /\ now = 0
    /\ http = NoHttp
    /\ authCodes = <<>> /\ codesIssued = 0
    /\ NoIndexing

NextLongDocs ==
    \/ Construct
    \/ LoadCase
    \/ Listen
    \/ GetCase
    \/ Respond

SpecLongDocs == InitLongDocs /\ [][NextLongDocs]_vars

(***************************************************************************)
(* The HTTP layer of the token-protected server: /register, /oauth/token,  *)
(* the register-session tool and the POST /mcp route behind                *)
(* validateBearerToken.  randomUUID() yields a value never seen before:    *)
(* the n-th client gets client_id n and client_secret n, the n-th token    *)
(* access_token n.  0 stands for a field the request leaves out.           *)
(***************************************************************************)
MaxClients == 2
MaxIssuedTokens == 2
ExpiresIn == 3600

\* the instants at which requests arrive
ClockTimes == {0, ExpiresIn, ExpiresIn + 1}

NoHeader == [scheme |-> "none"]

\* the Authorization headers a request may carry
AuthorizationHeaders ==
    {NoHeader, [scheme |-> "Basic", credentials |-> 1]}
    \cup [scheme : {"Bearer"}, credentials : 1..(MaxIssuedTokens + 1)]

\* this.tokens.get(token): the index of the entry, 0 when there is none
tokenIndex(tokenMap, token) ==
    IF \E k \in 1..Len(tokenMap) : tokenMap[k].access_token = token
    THEN CHOOSE k \in 1..Len(tokenMap) : tokenMap[k].access_token = token
    ELSE 0

ValidateWithoutExpiry(tokenMap, header, time) ==
    IF header.scheme # "Bearer" THEN 0 ELSE tokenIndex(tokenMap, header.credentials)

\* validateBearerToken: the index of the token it returns, 0 for null
validateBearerToken(tokenMap, header, time) ==
    IF header.scheme # "Bearer"
    THEN 0
    ELSE LET k == tokenIndex(tokenMap, header.credentials)
         IN  IF k = 0 \/ time > tokenMap[k].created_at + tokenMap[k].expires_in
             THEN 0 ELSE k

\* the client record; its created_at is written and never read, and is left out
newClient(clientMap, time) ==
    [client_id |-> Len(clientMap) + 1, client_secret |-> Len(clientMap) + 1]

newToken(tokenMap, client_id, time) ==
    [access_token |-> Len(tokenMap) + 1, expires_in |-> ExpiresIn,
     client_id |-> client_id, created_at |-> time]

\* the bodies a /oauth/token request may carry
TokenRequestBodies ==
    [grant_type : {"client_credentials"},
     client_id : 0..(MaxClients + 1), client_secret : 0..MaxClients]
    \cup [grant_type : {Undefined, "authorization_code"},
          client_id : {1}, client_secret : {1}]

\* the /oauth/token route: the status and error it answers, issued when it
\* stores a token
oauthToken(clientMap, body) ==
    IF body.grant_type = Undefined
    THEN [status |-> 400, error |-> "invalid_request", issued |-> FALSE]
    ELSE IF body.grant_type # "client_credentials"
    THEN [status |-> 400, error |-> "unsupported_grant_type", issued |-> FALSE]
    ELSE IF body.client_id = 0 \/ body.client_secret = 0
    THEN [status |-> 400, error |-> "invalid_request", issued |-> FALSE]
    ELSE IF \/ ~(\E k \in 1..Len(clientMap) : clientMap[k].client_id = body.client_id)
            \/ \E k \in 1..Len(clientMap) :
                 /\ clientMap[k].client_id = body.client_id
                 /\ clientMap[k].client_secret # body.client_secret
    THEN [status |-> 400, error |-> "invalid_client", issued |-> FALSE]
    ELSE [status |-> 200, error |-> Undefined, issued |-> TRUE]

\* the tool calls a POST /mcp request may carry
McpToolCalls ==
    {[tool |-> "search-cases",
      args |-> [query |-> QueryPay, category |-> "web", difficulty |-> Undefined,
                limit |-> <<1>>]],
     [tool |-> "get-case",
      args |-> [id |-> "a", sections |-> <<SecUsage>>, maxTokens |-> <<>>]],
     [tool |-> "register-session"]}

\* what the index does for the search of a POST /mcp request
McpIndexReplies ==
    {[embedFails |-> FALSE, queryFails |-> FALSE,
      hits |-> <<[id |-> "b", score |-> 1000]>>]}

\* the CallTool handler for search-cases and get-case, run to its return
toolResult(map, toolCall, reply) ==
    IF toolCall.tool = "search-cases"
    THEN LET params == parseSearchCases(toolCall.args).params
         IN  searchResponse(params.query,
                 searchCases(getAllCases(map), params.query,
                     [category |-> params.category, difficulty |-> params.difficulty,
                      limit |-> params.limit],
                     reply))
    ELSE handleGetCase(map, parseGetCase(toolCall.args).params)

\* POST /register
Register ==
    /\ pc = "idle"
    /\ Len(clients) < MaxClients
    /\ clients' = Append(clients, newClient(clients, now))
    /\ http' = [route |-> "/register", status |-> 200,
                client_id |-> Len(clients) + 1]
    /\ UNCHANGED <<env, cases, tree, loadPos, pc, call, response, tokens, now>>
    /\ UNCHANGED <<oauthVars, indexVars>>

\* POST /oauth/token
TokenRequest ==
    /\ pc = "idle"
    /\ \E body \in TokenRequestBodies :
         LET answer == oauthToken(clients, body)
         IN  /\ answer.issued => Len(tokens) < MaxIssuedTokens
             /\ tokens' = IF answer.issued
                          THEN Append(tokens, newToken(tokens, body.client_id, now))
                          ELSE tokens
             /\ http' = [route |-> "/oauth/token", body |-> body,
                         status |-> answer.status, error |-> answer.error,
                         access_token |-> IF answer.issued THEN Len(tokens) + 1 ELSE 0]
    /\ UNCHANGED <<env, cases, tree, loadPos, pc, call, response, clients, now>>
    /\ UNCHANGED <<oauthVars, indexVars>>

\* POST /mcp answered 401 by the route's first handler
McpUnauthorized ==
    /\ pc = "idle"
    /\ \E header \in AuthorizationHeaders, toolCall \in McpToolCalls :
         /\ validateBearerToken(tokens, header, now) = 0
         /\ http' = [route |-> "/mcp", authorization |-> header, toolCall |-> toolCall,
                     status |-> 401, error |-> "invalid_token"]
    /\ UNCHANGED <<env, cases, tree, loadPos, pc, call, response, clients, tokens, now>>
    /\ UNCHANGED <<oauthVars, indexVars>>

\* POST /mcp passed on to the transport: a search-cases or get-case call
McpToolCall ==
    /\ pc = "idle"
    /\ \E header \in AuthorizationHeaders, toolCall \in McpToolCalls,
          reply \in McpIndexReplies :
         /\ validateBearerToken(tokens, header, now) # 0
         /\ toolCall.tool # "register-session"
         /\ http' = [route |-> "/mcp", authorization |-> header, toolCall |-> toolCall,
                     status |-> 200, result |-> toolResult(cases, toolCall, reply)]
    /\ UNCHANGED <<env, cases, tree, loadPos, pc, call, response, clients, tokens, now>>
    /\ UNCHANGED <<oauthVars, indexVars>>

\* POST /mcp passed on to the transport: the register-session tool
McpRegisterSession ==
    /\ pc = "idle"
    /\ Len(clients) < MaxClients /\ Len(tokens) < MaxIssuedTokens
    /\ \E header \in AuthorizationHeaders :
         /\ validateBearerToken(tokens, header, now) # 0
         /\ clients' = Append(clients, newClient(clients, now))
         /\ tokens' = Append(tokens, newToken(tokens, Len(clients) + 1, now))
         /\ http' = [route |-> "/mcp", authorization |-> header,
                     toolCall |-> [tool |-> "register-session"], status |-> 200,
                     result |-> [isError |-> FALSE, kind |-> "session",
                                 client_id |-> Len(clients) + 1,
                                 access_token |-> Len(tokens) + 1]]
    /\ UNCHANGED <<env, cases, tree, loadPos, pc, call, response, now>>
    /\ UNCHANGED <<oauthVars, indexVars>>

\* time passes between two requests
Tick ==
    /\ pc = "idle"
    /\ \E t \in ClockTimes : t > now /\ now' = t
    /\ UNCHANGED <<env, cases, tree, loadPos, pc, call, response, clients, tokens, http>>
    /\ UNCHANGED <<oauthVars, indexVars>>

InitHttp ==
    /\ env = EnvNames
    /\ cases = <<>>
    /\ tree = directory(TRUE, <<FileA, FileB, FileC>>)
    /\ loadPos = 1
    /\ pc = "constructing"
    /\ call = NoCall
    /\ response = NoResponse
    /\ clients = <<>>
    /\ tokens = <<>>
    /\ now = 0
    /\ http = NoHttp
    /\ authCodes = <<>> /\ codesIssued = 0
    /\ NoIndexing

NextHttp ==
    \/ Construct
    \/ LoadCase
    \/ Listen
    \/ Register
    \/ TokenRequest
    \/ McpUnauthorized
    \/ McpToolCall
    \/ McpRegisterSession
    \/ Tick

SpecHttp == InitHttp /\ [][NextHttp]_vars

(***************************************************************************)
(* createExcerpt and the keyword score, applied on their own to inputs     *)
(* drawn from small sets: call holds the arguments, response what the      *)
(* function returned.                                                      *)
(***************************************************************************)
MaxExcerptLength == 8

ContentTwoSentences == <<"W", "e", "b", " ", "a", "p", "i", ".", " ", "P", "a", "y", " ", "i", "t", "!">>
ContentTie == <<"a", "p", "i", "?", "!", " ", "w", "e", "b", ".", "p", "a", "y">>
ContentNoSentence == <<".", " ", "!", "?">>
\* one sentence, three characters longer than the default maxLength
ContentLongSentence == fillerLines(ExcerptMaxLength + EllipsisLength)

QueryPayPayWeb == <<"p", "a", "y", " ", "P", "A", "Y", " ", "w", "e", "b">>
QueryLeadingSpace == <<" ", "a", "p", "i">>
QueryNoHit == <<"z", "z", "z">>

ExcerptContents ==
    {ContentA, ContentB, ContentTwoSentences, ContentTie, ContentNoSentence, <<>>,
     ContentLongSentence}
ExcerptQueries == {QueryPay, QueryWebApi, QueryPayPayWeb, QueryLeadingSpace, QueryNoHit}

ExcerptCalls ==
    [tool : {"createExcerpt"}, content : ExcerptContents, query : ExcerptQueries,
     maxLength : (0..MaxExcerptLength) \cup {ExcerptMaxLength}]

TitleAaa == <<"A", "a", "a", "a">>
ContentAbc == <<"a", "b", "c", " ", "a", "a", "b", " ", "a", "a", "a", "a">>
ContentPayPay == <<"p", "a", "y", " ", "P", "a", "y", "s">>
QueryDot == <<"a", ".", "c">>
QueryAaa == <<"A", "A", "A">>
QueryPlus == <<"a", "+", "b">>
QueryCpp == <<"c", "+", "+">>
QueryShortAndPay == <<"a", "b", " ", "p", "a", "y">>
QueryPayPay == <<"p", "a", "y", " ", "p", "a", "y">>

ScoreCases ==
    [title : {TitleA, TitleAaa}, tags : {<<>>, <<TagPay>>, <<TagApi, TagPay>>},
     content : {ContentAbc, ContentPayPay, ContentC}]
ScoreQueries ==
    {QueryPay, QueryWebApi, QueryDot, QueryAaa, QueryPlus, QueryCpp, QueryShortAndPay,
     QueryPayPay}

ScoreCalls == [tool : {"performKeywordSearch"}, caseItem : ScoreCases, query : ScoreQueries]

\* contentMatches of every term of the loop, in order
contentMatchesOf(caseItem, terms) ==
    [i \in 1..Len(terms) |-> countMatches(searchText(caseItem), terms[i])]

InitUnit ==
    /\ env = EnvNames
    /\ cases = <<>>
    /\ tree = directory(TRUE, <<>>)
    /\ loadPos = 1
    /\ pc = "unit"
    /\ call \in ExcerptCalls \cup ScoreCalls
    /\ response = NoResponse
    /\ clients = <<>>
    /\ tokens = <<>>
    /\ now = 0
    /\ http = NoHttp
    /\ authCodes = <<>> /\ codesIssued = 0
    /\ NoIndexing

\* createExcerpt(content, query, maxLength)
CreateExcerpt ==
    /\ pc = "unit" /\ call.tool = "createExcerpt" /\ response = NoResponse
    /\ response' = [kind |-> "excerpt",
                    bestSentence |-> bestSentenceOf(call.content, call.query),
                    excerpt |-> createExcerptMax(call.content, call.query, call.maxLength)]
    /\ UNCHANGED <<env, cases, tree, loadPos, pc, call>>
    /\ UNCHANGED httpVars
    /\ UNCHANGED <<oauthVars, indexVars>>

\* performKeywordSearch([caseItem], query): the score of the case, or the throw
\* of new RegExp
PerformKeywordSearch ==
    /\ pc = "unit" /\ call.tool = "performKeywordSearch" /\ response = NoResponse
    /\ LET terms == keywordTerms(call.query)
       IN  response' =
             IF \E i \in 1..Len(terms) : regexThrows(terms[i])
             THEN [kind |-> "score", threw |-> TRUE]
             ELSE [kind |-> "score", threw |-> FALSE,
                   contentMatches |-> contentMatchesOf(call.caseItem, terms),
                   relevanceScore |-> keywordScore(call.caseItem, terms)]
    /\ UNCHANGED <<env, cases, tree, loadPos, pc, call>>
    /\ UNCHANGED httpVars
    /\ UNCHANGED <<oauthVars, indexVars>>

NextUnit ==
    \/ CreateExcerpt
    \/ PerformKeywordSearch

SpecUnit == InitUnit /\ [][NextUnit]_vars

(***************************************************************************)
(* VectorService.indexCases, as the index script calls it: the documents   *)
(* are the positions 1..n of the array it is given.  A batch's indexCase   *)
(* calls are all started by batch.map before anything is awaited; their    *)
(* embedding and upsert requests are answered in any order.                *)
(***************************************************************************)
BatchSize == 10
MaxDocs == 11

min(a, b) == IF a < b THEN a ELSE b

\* cases.slice(i, i + batchSize), as positions
batchOf(i, n) == (i + 1)..min(i + BatchSize, n)

PauseAfterEveryBatch(i, n) == TRUE

\* if (i + batchSize < cases.length)
pauseNeeded(i, n) == i + BatchSize < n

\* batch.map(c => this.indexCase(c)): every call runs up to its embedding
\* request
startBatch(calls, i, n) ==
    [d \in 1..n |-> IF d \in batchOf(i, n) THEN "embedding" ELSE calls[d]]

SwallowingCatch == "done"

\* the catch blocks of generateEmbedding and indexCase log and throw again
indexCaseCatch == "failed"

\* await Promise.all(...) as seen by the loop once a call has settled: it
\* rejects with the first failure, resolves when the whole batch is done;
\* then the loop pauses or ends
settle(phase, calls, i, n) ==
    IF phase # "batch" THEN phase
    ELSE IF \E d \in batchOf(i, n) : calls[d] = "failed" THEN "rejected"
    ELSE IF \A d \in batchOf(i, n) : calls[d] = "done"
         THEN (IF pauseNeeded(i, n) THEN "pause" ELSE "completed")
    ELSE "batch"

NoFault == [doc |-> 0, stage |-> "none"]
Faults ==
    { NoFault, [doc |-> 3, stage |-> "embedding"],
      [doc |-> 2, stage |-> "upserting"],
      [doc |-> MaxDocs, stage |-> "upserting"] }
DocCounts == {0, BatchSize, MaxDocs}
IndexCalls ==
    { c \in [tool : {"indexCases"}, docs : DocCounts, fault : Faults] :
        c.fault.doc <= c.docs }

faulty(d, stage) == call.fault = [doc |-> d, stage |-> stage]

\* the state after the call d has settled as `outcome`
settled(d, outcome) ==
    LET calls == [indexCalls EXCEPT ![d] = outcome]
        phase == settle(indexPhase, calls, indexI, call.docs)
    IN  /\ indexCalls' = calls
        /\ indexPhase' = phase
        /\ indexI' = IF phase = "completed" THEN indexI + BatchSize ELSE indexI
        /\ pauses' = IF phase = "pause" THEN pauses + 1 ELSE pauses

InitIndex ==
    /\ env = EnvNames /\ cases = <<>> /\ tree = directory(TRUE, <<>>)
    /\ loadPos = 1 /\ pc = "script" /\ call \in IndexCalls
    /\ response = NoResponse
    /\ clients = <<>> /\ tokens = <<>> /\ now = 0 /\ http = NoHttp
    /\ authCodes = <<>> /\ codesIssued = 0
    /\ NoIndexing

\* the call: for (let i = 0; i < cases.length; ...) and the first batch
IndexCases ==
    /\ pc = "script" /\ call.tool = "indexCases" /\ indexPhase = "off"
    /\ indexI' = 0
    /\ upserts' = [d \in 1..call.docs |-> 0]
    /\ IF 0 < call.docs
       THEN /\ indexCalls' = startBatch([d \in 1..call.docs |-> "none"], 0, call.docs)
            /\ indexPhase' = "batch"
       ELSE /\ indexCalls' = <<>>
            /\ indexPhase' = "completed"
    /\ UNCHANGED <<pauses, oauthVars>>
    /\ UNCHANGED <<env, cases, tree, loadPos, pc, call, response>>
    /\ UNCHANGED httpVars

\* openai.embeddings.create answers: indexCase goes on to index.upsert
EmbeddingResolves ==
    /\ \E d \in DOMAIN indexCalls :
        /\ indexCalls[d] = "embedding" /\ ~faulty(d, "embedding")
        /\ indexCalls' = [indexCalls EXCEPT ![d] = "upserting"]
    /\ UNCHANGED <<indexPhase, indexI, upserts, pauses, oauthVars>>
    /\ UNCHANGED <<env, cases, tree, loadPos, pc, call, response>>
    /\ UNCHANGED httpVars

\* openai.embeddings.create fails
EmbeddingRejects ==
    /\ \E d \in DOMAIN indexCalls :
        /\ indexCalls[d] = "embedding" /\ faulty(d, "embedding")
        /\ settled(d, indexCaseCatch)
    /\ UNCHANGED <<upserts, oauthVars>>
    /\ UNCHANGED <<env, cases, tree, loadPos, pc, call, response>>
    /\ UNCHANGED httpVars

\* index.upsert answers
UpsertResolves ==
    /\ \E d \in DOMAIN indexCalls :
        /\ indexCalls[d] = "upserting" /\ ~faulty(d, "upserting")
        /\ settled(d, "done")
        /\ upserts' = [upserts EXCEPT ![d] = @ + 1]
    /\ UNCHANGED oauthVars
    /\ UNCHANGED <<env, cases, tree, loadPos, pc, call, response>>
    /\ UNCHANGED httpVars

\* index.upsert fails
UpsertRejects ==
    /\ \E d \in DOMAIN indexCalls :
        /\ indexCalls[d] = "upserting" /\ faulty(d, "upserting")
        /\ settled(d, indexCaseCatch)
    /\ UNCHANGED <<upserts, oauthVars>>
    /\ UNCHANGED <<env, cases, tree, loadPos, pc, call, response>>
    /\ UNCHANGED httpVars

\* the setTimeout of the pause fires: i += batchSize and the next batch
PauseElapses ==
    /\ indexPhase = "pause"
    /\ indexI' = indexI + BatchSize
    /\ indexCalls' = startBatch(indexCalls, indexI + BatchSize, call.docs)
    /\ indexPhase' = "batch"
    /\ UNCHANGED <<upserts, pauses, oauthVars>>
    /\ UNCHANGED <<env, cases, tree, loadPos, pc, call, response>>
    /\ UNCHANGED httpVars

NextIndex ==
    \/ IndexCases
    \/ EmbeddingResolves
    \/ EmbeddingRejects
    \/ UpsertResolves
    \/ UpsertRejects
    \/ PauseElapses

SpecIndex == InitIndex /\ [][NextIndex]_vars

(***************************************************************************)
(* The server variant with the authorization-code grant: /register with    *)
(* redirect URIs, GET /oauth/authorize and POST /oauth/token.  The n-th    *)
(* code randomUUID() produces is n; 0 and Undefined stand for a field the  *)
(* request leaves out.  Time is in seconds.                                *)
(***************************************************************************)
MaxCodes == 1
AuthCodeLifetime == 600

\* the instants at which requests arrive
AuthClockTimes == {0, AuthCodeLifetime, AuthCodeLifetime + 1}

UriA == "https://a.example/callback"
UriB == "https://b.example/callback"

\* createHash('sha256').update(code_verifier).digest('base64url')
sha256(verifier) == IF verifier = "verifier-1" THEN "hash-1" ELSE "hash-2"

\* the bodies of POST /register
RegisterBodies == {[redirect_uris |-> Undefined], [redirect_uris |-> <<UriA>>]}

\* the client record of this variant (created_at is never read)
oauthClient(clientMap, body) ==
    [client_id |-> Len(clientMap) + 1, client_secret |-> Len(clientMap) + 1,
     redirect_uris |-> IF body.redirect_uris = Undefined THEN <<>>
                       ELSE body.redirect_uris]

\* this.clients.get(client_id): the index of the entry, 0 when there is none
clientIndex(clientMap, client_id) ==
    IF \E k \in 1..Len(clientMap) : clientMap[k].client_id = client_id
    THEN CHOOSE k \in 1..Len(clientMap) : clientMap[k].client_id = client_id
    ELSE 0

\* this.authCodes.get(code): the index of the entry, 0 when there is none
codeIndex(codeMap, code) ==
    IF \E k \in 1..Len(codeMap) : codeMap[k].code = code
    THEN CHOOSE k \in 1..Len(codeMap) : codeMap[k].code = code
    ELSE 0

\* the two clients of the grant: the one a code is issued to and another
OAuthClientIds == {1, 2}

\* the query strings of GET /oauth/authorize
AuthorizeQueries ==
    [response_type : {"code"}, client_id : OAuthClientIds,
     redirect_uri : {UriA}, code_challenge : {Undefined, "hash-1"}]
    \cup [response_type : {"code"}, client_id : {1},
          redirect_uri : {Undefined, UriB}, code_challenge : {Undefined}]
    \cup {[response_type |-> "code", client_id |-> 3, redirect_uri |-> UriA,
           code_challenge |-> Undefined],
          [response_type |-> "token", client_id |-> 1, redirect_uri |-> UriA,
           code_challenge |-> Undefined]}

\* GET /oauth/authorize: what it answers and whether it has stored a code
\* before; new URL(undefined) throws after authCodes.set
authorize(clientMap, query) ==
    LET k == clientIndex(clientMap, query.client_id)
    IN  IF query.response_type # "code"
        THEN [status |-> 400, error |-> "unsupported_response_type", stored |-> FALSE]
        ELSE IF k = 0
        THEN [status |-> 400, error |-> "invalid_client", stored |-> FALSE]
        ELSE IF /\ query.redirect_uri # Undefined
                /\ ~(\E u \in 1..Len(clientMap[k].redirect_uris) :
                        clientMap[k].redirect_uris[u] = query.redirect_uri)
        THEN [status |-> 400, error |-> "invalid_redirect_uri", stored |-> FALSE]
        ELSE IF query.redirect_uri = Undefined
        THEN [status |-> 500, error |-> "TypeError", stored |-> TRUE]
        ELSE [status |-> 302, error |-> Undefined, stored |-> TRUE]

\* the bodies of POST /oauth/token; a client sends its own secret or none
CodeRequestBodies ==
    { b \in [grant_type : {"authorization_code"}, client_id : OAuthClientIds,
             client_secret : OAuthClientIds, code : 1..MaxCodes,
             code_verifier : {Undefined, "verifier-1", "verifier-2"}] :
        b.client_secret = b.client_id }
    \cup [grant_type : {"authorization_code"}, client_id : {1},
          client_secret : {0, 1}, code : {0, 1, MaxCodes + 1},
          code_verifier : {Undefined}]
    \cup [grant_type : {"client_credentials", "password"}, client_id : {1},
          client_secret : {0}, code : {0}, code_verifier : {Undefined}]

\* the client authentication both grants share
clientAuthenticated(clientMap, body) ==
    LET k == clientIndex(clientMap, body.client_id)
    IN  k # 0 /\ clientMap[k].client_secret = body.client_secret

\* POST /oauth/token: what it answers, whether it issues a token and whether
\* it deletes the code
codeGrant(codeMap, clientMap, body, time) ==
    LET k == codeIndex(codeMap, body.code)
    IN  IF body.grant_type = "authorization_code"
        THEN IF k = 0 \/ time > codeMap[k].expires_at
             THEN [status |-> 400, error |-> "invalid_grant", issued |-> FALSE]
             ELSE IF ~clientAuthenticated(clientMap, body)
             THEN [status |-> 400, error |-> "invalid_client", issued |-> FALSE]
             ELSE IF /\ codeMap[k].code_challenge # Undefined
                     /\ body.code_verifier # Undefined
                     /\ sha256(body.code_verifier) # codeMap[k].code_challenge
             THEN [status |-> 400, error |-> "invalid_grant", issued |-> FALSE]
             ELSE [status |-> 200, error |-> Undefined, issued |-> TRUE]
        ELSE IF body.grant_type = "client_credentials"
        THEN IF ~clientAuthenticated(clientMap, body)
             THEN [status |-> 400, error |-> "invalid_client", issued |-> FALSE]
             ELSE [status |-> 200, error |-> Undefined, issued |-> TRUE]
        ELSE [status |-> 400, error |-> "unsupported_grant_type", issued |-> FALSE]

KeepCode(codeMap, code) == codeMap

\* this.authCodes.delete(code)
deleteCode(codeMap, code) ==
    SelectSeq(codeMap, LAMBDA entry : entry.code # code)

\* POST /register
RegisterWithRedirects ==
    /\ pc = "idle"
    /\ Len(clients) < Cardinality(OAuthClientIds)
    /\ \E body \in RegisterBodies :
         /\ clients' = Append(clients, oauthClient(clients, body))
         /\ http' = [route |-> "/register", status |-> 200,
                     client_id |-> Len(clients) + 1]
    /\ UNCHANGED <<env, cases, tree, loadPos, pc, call, response, tokens, now>>
    /\ UNCHANGED <<oauthVars, indexVars>>

\* GET /oauth/authorize
Authorize ==
    /\ pc = "idle"
    /\ \E query \in AuthorizeQueries :
         LET answer == authorize(clients, query)
         IN  /\ answer.stored => codesIssued < MaxCodes
             /\ authCodes' =
                  IF answer.stored
                  THEN Append(authCodes,
                           [code |-> codesIssued + 1, client_id |-> query.client_id,
                            code_challenge |-> query.code_challenge,
                            redirect_uri |-> query.redirect_uri,
                            expires_at |-> now + AuthCodeLifetime])
                  ELSE authCodes
             /\ codesIssued' = IF answer.stored THEN codesIssued + 1 ELSE codesIssued
             /\ http' = [route |-> "/oauth/authorize", query |-> query,
                         status |-> answer.status, error |-> answer.error,
                         code |-> IF answer.status = 302 THEN codesIssued + 1 ELSE 0]
    /\ UNCHANGED <<env, cases, tree, loadPos, pc, call, response, clients, tokens, now>>
    /\ UNCHANGED indexVars

\* POST /oauth/token
CodeTokenRequest ==
    /\ pc = "idle"
    /\ \E body \in CodeRequestBodies :
         LET answer == codeGrant(authCodes, clients, body, now)
         IN  /\ tokens' = IF answer.issued
                          THEN Append(tokens, newToken(tokens, body.client_id, now))
                          ELSE tokens
             /\ authCodes' = IF answer.issued /\ body.grant_type = "authorization_code"
                             THEN deleteCode(authCodes, body.code)
                             ELSE authCodes
             /\ http' = [route |-> "/oauth/token", body |-> body,
                         status |-> answer.status, error |-> answer.error,
                         access_token |-> IF answer.issued THEN Len(tokens) + 1 ELSE 0]
    /\ UNCHANGED <<env, cases, tree, loadPos, pc, call, response, clients, now>>
    /\ UNCHANGED <<codesIssued, indexVars>>

\* time passes between two requests
AuthTick ==
    /\ pc = "idle"
    /\ \E t \in AuthClockTimes : t > now /\ now' = t
    /\ UNCHANGED <<env, cases, tree, loadPos, pc, call, response, clients, tokens, http>>
    /\ UNCHANGED <<oauthVars, indexVars>>

InitOAuth ==
    /\ env = EnvNames
    /\ cases = <<>>
    /\ tree = directory(TRUE, <<FileA>>)
    /\ loadPos = 1
    /\ pc = "constructing"
    /\ call = NoCall
    /\ response = NoResponse
    /\ clients = <<>>
    /\ tokens = <<>>
    /\ now = 0
    /\ http = NoHttp
    /\ authCodes = <<>> /\ codesIssued = 0
    /\ NoIndexing

NextOAuth ==
    \/ Construct
    \/ LoadCase
    \/ Listen
    \/ RegisterWithRedirects
    \/ Authorize
    \/ CodeTokenRequest
    \/ AuthTick

SpecOAuth == InitOAuth /\ [][NextOAuth]_vars

(***************************************************************************)
(* search-cases calls whose query holds a token that is no regular         *)
(* expression.                                                             *)
(***************************************************************************)
QueryParenFoo == <<"(", "f", "o", "o">>
QueryPayCpp == <<"p", "a", "y", " ", "C", "+", "+">>

InvalidQueryArgs ==
    [query : {QueryCpp, QueryParenFoo, QueryPayCpp, QueryPay},
     category : {Undefined, "web", "mobile"},
     difficulty : {Undefined},
     limit : {<<>>, <<1>>}]

InitInvalidQuery ==
    /\ env = EnvNames
    /\ cases = <<>>
    /\ tree \in {directory(TRUE, <<FileA, FileB, FileC>>), directory(TRUE, <<FileA>>)}
    /\ loadPos = 1
    /\ pc = "constructing"
    /\ call = NoCall
    /\ response = NoResponse
    /\ clients = <<>>
    /\ tokens = <<>>
    /\ now = 0
    /\ http = NoHttp
    /\ authCodes = <<>> /\ codesIssued = 0
    /\ NoIndexing

\* CallTool 'search-cases' up to the await of searchSimilar
SearchInvalidBegin ==
    /\ pc = "idle"
    /\ \E args \in InvalidQueryArgs :
        /\ parseSearchCases(args).ok
        /\ call' = [tool |-> "search-cases", args |-> args]
    /\ pc' = "awaitIndex"
    /\ UNCHANGED <<env, cases, tree, loadPos, response>>
    /\ UNCHANGED httpVars
    /\ UNCHANGED <<oauthVars, indexVars>>

NextInvalidQuery ==
    \/ Construct
    \/ LoadCase
    \/ Listen
    \/ SearchInvalidBegin
    \/ SearchCasesFinish
    \/ Respond

SpecInvalidQuery == InitInvalidQuery /\ [][NextInvalidQuery]_vars

(***************************************************************************)
(* Properties of searchCases.  They are stated on the state in which a     *)
(* search-cases call has returned: call holds its arguments and the reply  *)
(* of the index, response.results what searchCases returned.               *)
(***************************************************************************)
SearchDone == pc = "responded" /\ call.tool = "search-cases" /\ response.kind = "search"

doneParams == parseSearchCases(call.args).params
doneLimit == doneParams.limit[1]
doneFailed == call.reply.embedFails \/ call.reply.queryFails
doneHits == call.reply.hits

\* the filtered set F of the call, from the store
doneF ==
    SelectSeq(cases, LAMBDA c :
        /\ (doneParams.category # Undefined => c.category = doneParams.category)
        /\ (doneParams.difficulty # Undefined => c.difficulty = doneParams.difficulty))

idsOf(seq) == {seq[i].id : i \in 1..Len(seq)}

\* ids of F that some vector hit names
doneVectorIds == idsOf(doneHits) \cap idsOf(doneF)

\* C1: a search with limit L returns at most L results, also when more than L
\* vector hits were merged into the result Map
C1_AtMostLimit ==
    SearchDone =>
        /\ Len(response.results) <= doneLimit
        /\ response.total_results <= doneLimit

C1_Witness ==
    /\ SearchDone
    /\ Cardinality(doneVectorIds) > doneLimit
    /\ Len(response.results) = doneLimit

\* C2: every result is a case of the store whose category and difficulty equal
\* the requested ones, whether it came from a vector hit or a keyword match
C2_FilterCorrect ==
    SearchDone =>
        \A i \in 1..Len(response.results) :
            /\ \E k \in 1..Len(cases) :
                /\ cases[k].id = response.results[i].id
                /\ doneParams.category # Undefined =>
                      cases[k].category = doneParams.category
                /\ doneParams.difficulty # Undefined =>
                      cases[k].difficulty = doneParams.difficulty
            /\ doneParams.category # Undefined =>
                  response.results[i].category = doneParams.category

\* both filters given, a vector hit names a case of the store outside F, and
\* results come both from a vector hit and from a keyword match
C2_Witness ==
    /\ SearchDone
    /\ doneParams.category # Undefined
    /\ doneParams.difficulty # Undefined
    /\ \E h \in 1..Len(doneHits) :
          doneHits[h].id \in idsOf(cases) \ idsOf(doneF)
    /\ \E i \in 1..Len(response.results) : response.results[i].id \in doneVectorIds
    /\ \E i \in 1..Len(response.results) : response.results[i].id \notin doneVectorIds

\* the descending keyword ranking of the cases of F no vector hit names
doneRanking ==
    performKeywordSearch(SelectSeq(doneF, LAMBDA c : c.id \notin doneVectorIds),
                         doneParams.query)

\* the results that came from the keyword search, in the order returned
doneKeywordResults ==
    SelectSeq(response.results, LAMBDA r : r.id \notin doneVectorIds)

\* the index of the first (last) hit that names id
firstHit(id) ==
    CHOOSE h \in 1..Len(doneHits) :
        doneHits[h].id = id /\ \A g \in 1..(h - 1) : doneHits[g].id # id
lastHit(id) ==
    CHOOSE h \in 1..Len(doneHits) :
        doneHits[h].id = id /\ \A g \in (h + 1)..Len(doneHits) : doneHits[g].id # id

storeIndex(id) == CHOOSE k \in 1..Len(cases) : cases[k].id = id

\* C3 as claimed: a failed embedding call or index query makes searchCases
\* return the empty list, whatever matches by keyword
C3_EmptyOnFault ==
    (SearchDone /\ doneFailed) => response.results = <<>>

\* C3 amended: a failed embedding call or index query does not make the call
\* fail; searchCases returns the keyword-only result, the first limit entries of
\* the descending keyword ranking of F, which is not empty when a case of F has a
\* keyword score above 0
C3_KeywordOnlyOnFault ==
    (SearchDone /\ doneFailed /\ ~doneRanking.threw) =>
        /\ ~response.isError
        /\ response.results = SubSeq(doneRanking.matches, 1,
              IF doneLimit < Len(doneRanking.matches) THEN doneLimit
              ELSE Len(doneRanking.matches))
        /\ (\E k \in 1..Len(doneF) :
                keywordScore(doneF[k], keywordTerms(doneParams.query)) > 0)
           => response.results # <<>>

C3_Witness ==
    /\ SearchDone
    /\ doneFailed
    /\ Len(response.results) > 0
    /\ Len(doneRanking.matches) > doneLimit

\* C4: the returned list is in non-increasing order of relevanceScore, and
\* results of equal score are in the order of their insertion into the result
\* Map: vector matches in the order of the index, before keyword matches;
\* keyword matches of equal score in the order of the store
C4_SortedStable ==
    SearchDone =>
        \A i, j \in 1..Len(response.results) :
            i < j =>
                LET a == response.results[i]
                    b == response.results[j]
                IN  /\ a.relevanceScore >= b.relevanceScore
                    /\ a.relevanceScore = b.relevanceScore =>
                        /\ ~(a.id \notin doneVectorIds /\ b.id \in doneVectorIds)
                        /\ (a.id \in doneVectorIds /\ b.id \in doneVectorIds)
                              => firstHit(a.id) < firstHit(b.id)
                        /\ (a.id \notin doneVectorIds /\ b.id \notin doneVectorIds)
                              => storeIndex(a.id) < storeIndex(b.id)

\* a vector match and a keyword match of equal score are both returned
C4_Witness ==
    /\ SearchDone
    /\ \E i, j \in 1..Len(response.results) :
          /\ i < j
          /\ response.results[i].relevanceScore = response.results[j].relevanceScore
          /\ response.results[i].id \in doneVectorIds
          /\ response.results[j].id \notin doneVectorIds

\* C6 as claimed: a result whose id the index named has the score of the first
\* hit with that id
C6_FirstHitScore ==
    SearchDone =>
        \A i \in 1..Len(response.results) :
            response.results[i].id \in doneVectorIds =>
                response.results[i].relevanceScore
                    = doneHits[firstHit(response.results[i].id)].score

\* C6 amended: a result whose id the index named has the raw score of the last
\* hit with that id (set() overwrites the entry of an earlier hit)
C6_LastHitScore ==
    SearchDone =>
        \A i \in 1..Len(response.results) :
            response.results[i].id \in doneVectorIds =>
                response.results[i].relevanceScore
                    = doneHits[lastHit(response.results[i].id)].score

\* the index names a returned id twice, with different scores
C6_Witness ==
    /\ SearchDone
    /\ \E i \in 1..Len(response.results) :
          /\ response.results[i].id \in doneVectorIds
          /\ doneHits[firstHit(response.results[i].id)].score
                # doneHits[lastHit(response.results[i].id)].score

\* C7: the returned ids are pairwise distinct and are ids of F, and a case a
\* vector hit matched keeps a vector score: no keyword result replaces it
C7_DistinctInFVectorKept ==
    SearchDone =>
        /\ \A i, j \in 1..Len(response.results) :
              i # j => response.results[i].id # response.results[j].id
        /\ \A i \in 1..Len(response.results) :
              /\ response.results[i].id \in idsOf(doneF)
              /\ response.results[i].id \in doneVectorIds =>
                    \E h \in 1..Len(doneHits) :
                        /\ doneHits[h].id = response.results[i].id
                        /\ doneHits[h].score = response.results[i].relevanceScore

\* a hit names an id outside F, a returned vector match has a keyword score
\* above 0 that differs from its vector score, and a keyword match is returned
C7_Witness ==
    /\ SearchDone
    /\ idsOf(doneHits) \ idsOf(doneF) # {}
    /\ Len(doneKeywordResults) > 0
    /\ \E i \in 1..Len(response.results) :
          /\ response.results[i].id \in doneVectorIds
          /\ keywordScore(cases[storeIndex(response.results[i].id)],
                          keywordTerms(doneParams.query))
                \notin {0, response.results[i].relevanceScore}

\* C8: the keyword results returned are the first max(0, limit - v) entries of
\* the descending keyword ranking, v the number of distinct vector matches in F:
\* none when v >= limit, the top limit of F when there is no vector hit; each
\* has a keyword score above 0
C8_KeywordMergeRule ==
    (SearchDone /\ ~doneRanking.threw) =>
        LET v == Cardinality(doneVectorIds)
            room == IF doneLimit > v THEN doneLimit - v ELSE 0
            ranking == doneRanking.matches
        IN  /\ doneKeywordResults
                = SubSeq(ranking, 1, IF room < Len(ranking) THEN room ELSE Len(ranking))
            /\ v >= doneLimit => doneKeywordResults = <<>>
            /\ v = 0 => response.results = doneKeywordResults
            /\ \A i \in 1..Len(doneKeywordResults) :
                  /\ doneKeywordResults[i].relevanceScore > 0
                  /\ doneKeywordResults[i].relevanceScore
                        = keywordScore(cases[storeIndex(doneKeywordResults[i].id)],
                                       keywordTerms(doneParams.query))

\* one vector match, room for one keyword match, two cases in the ranking
C8_Witness ==
    /\ SearchDone
    /\ Cardinality(doneVectorIds) = 1
    /\ doneLimit = 2
    /\ Len(doneRanking.matches) = 2
    /\ Len(doneKeywordResults) = 1

(***************************************************************************)
(* Properties of the get-case tool                                         *)
(***************************************************************************)
GetCaseDone == pc = "responded" /\ call.tool = "get-case"

\* C9: a get-case call (with arguments the schema accepts) whose id is not a
\* key of the store is answered by a result flagged isError that says the case
\* was not found, and leaves the store as it was
C9_NotFound ==
    [][(/\ pc = "idle"
        /\ call'.tool = "get-case"
        /\ parseGetCase(call'.args).ok
        /\ call'.args.id \notin idsOf(cases))
       => (/\ pc' = "responded"
           /\ response'.isError
           /\ response'.kind = "not-found"
           /\ response'.id = call'.args.id
           /\ cases' = cases)]_vars

C9_Witness ==
    /\ GetCaseDone
    /\ Len(cases) > 0
    /\ call.args.id \notin idsOf(cases)
    /\ response.kind = "not-found"

\* the number of '#' a line starts with
headerLevel(line) == skipRun(line, {"#"}, 1) - 1

\* the lines of the sections whose header matches a requested name, a section
\* running from its header to the next header that is not one of its sub-headers
sectionLines(content, sections) ==
    LET lines == splitLines(content)
        wanted(j) == /\ headerLevel(lines[j]) > 0
                     /\ sectionWanted(headerTextOf(lines[j]), sections)
        inside(j, i) == \A m \in (j + 1)..i :
                            headerLevel(lines[m]) > 0 =>
                                headerLevel(lines[m]) > headerLevel(lines[j])
        kept == {i \in 1..Len(lines) : \E j \in 1..i : wanted(j) /\ inside(j, i)}
    IN  SelectSeq([i \in 1..Len(lines) |-> [at |-> i, line |-> lines[i]]],
                  LAMBDA l : l.at \in kept)

\* C10: get-case with a non-empty sections list returns the lines of the
\* sections whose header text contains, or is contained in, a requested name,
\* each from its header line up to the next header of the document's sections
\* ('## Usage' up to the next '##' header), and no other line
C10_SectionLines ==
    (GetCaseDone /\ response.kind = "case" /\ Len(call.args.sections) > 0) =>
        LET want == sectionLines(cases[storeIndex(call.args.id)].content,
                                 call.args.sections)
        IN  response.content
                = trim(join([i \in 1..Len(want) |-> want[i].line], <<"\n">>))

\* s ends with suffix
endsWith(s, suffix) ==
    Len(s) >= Len(suffix) /\ SubSeq(s, Len(s) - Len(suffix) + 1, Len(s)) = suffix

\* the content of the called case after the section filter, if one was asked for
doneFiltered ==
    LET stored == cases[storeIndex(call.args.id)].content
    IN  IF Len(call.args.sections) > 0
        THEN filterCaseSections(stored, call.args.sections)
        ELSE stored

doneMaxChars == parseGetCase(call.args).params.maxTokens * CharsPerToken

\* C11: get-case returns the content, after the optional section filter,
\* unchanged when it has at most maxTokens*4 characters, and otherwise its first
\* maxTokens*4 characters followed by the truncation marker; the marker is there
\* if and only if characters were cut.
C11_Truncation ==
    (GetCaseDone /\ response.kind = "case") =>
        /\ Len(doneFiltered) <= doneMaxChars => response.content = doneFiltered
        /\ Len(doneFiltered) > doneMaxChars =>
                response.content = SubSeq(doneFiltered, 1, doneMaxChars) \o TruncationMarker
        /\ endsWith(response.content, TruncationMarker) <=> Len(doneFiltered) > doneMaxChars

\* a document one character over the cut was cut, and in the same store a document
\* whose Usage section is exactly at the cut is returned whole
C11_Witness ==
    /\ GetCaseDone /\ response.kind = "case"
    /\ Len(doneFiltered) = doneMaxChars + 1
    /\ Len(response.content) = doneMaxChars + Len(TruncationMarker)
    /\ \E k \in 1..Len(cases) :
          Len(filterCaseSections(cases[k].content, <<SecUsage>>)) = SmallestCut

(***************************************************************************)
(* Properties of the tool-call handler and of startup                      *)
(***************************************************************************)
\* the arguments of a search-cases call are malformed
malformedSearch(args) ==
    \/ Len(args.query) = 0
    \/ args.category \notin {Undefined, "mobile", "web", "backend", "tools", "integrations"}
    \/ args.difficulty \notin {Undefined, "beginner", "intermediate", "advanced"}
    \/ Len(args.limit) > 0 /\ args.limit[1] \notin 1..20

\* C12: a search-cases call with malformed parameters (empty query, category or
\* difficulty outside the enumerations, limit outside 1..20) is answered with the
\* validation error and never reaches the embedding call or the index query: from
\* its receipt to its reply the handler is not waiting on the index and no index
\* reply is attached to the call.
C12_RejectedBeforeIndex ==
    (call.tool = "search-cases" /\ malformedSearch(call.args)) =>
        /\ pc = "responded"
        /\ response = validationError
        /\ "reply" \notin DOMAIN call

\* a call whose only fault is a limit above 20 has been rejected
C12_Witness ==
    /\ pc = "responded" /\ call.tool = "search-cases"
    /\ call.args.query = QueryPay /\ call.args.category = "web"
    /\ call.args.difficulty = "beginner" /\ call.args.limit = <<21>>
    /\ response.isError

\* C13: when UPSTASH_VECTOR_URL, UPSTASH_VECTOR_TOKEN or OPENAI_API_KEY is
\* missing, construction of the server fails and the process never loads a
\* document, never listens and never handles or answers a request.
C13_NoServiceWithoutCredentials ==
    (env # EnvNames) =>
        /\ pc \in {"constructing", "crashed"}
        /\ cases = <<>> /\ loadPos = 1
        /\ call = NoCall /\ response = NoResponse

\* construction has failed with only the OpenAI key missing
C13_Witness ==
    pc = "crashed" /\ env = {"UPSTASH_VECTOR_URL", "UPSTASH_VECTOR_TOKEN"}

\* C14 as claimed: the server is public, so a POST /mcp request that carries no
\* Authorization header and a search-cases or get-case call is served
C14_ServedWithoutToken ==
    (/\ http.route = "/mcp" /\ http.authorization = NoHeader
     /\ http.toolCall.tool \in {"search-cases", "get-case"}) =>
        http.status = 200

(***************************************************************************)
(* Properties of createExcerpt and of the keyword score                    *)
(***************************************************************************)
ExcerptDone == pc = "unit" /\ response.kind = "excerpt"

\* the contract of the cut for one call
excerptWithin(maxLength) ==
    /\ Len(response.excerpt) <= maxLength
    /\ Len(response.bestSentence) <= maxLength => response.excerpt = response.bestSentence
    /\ Len(response.bestSentence) > maxLength =>
            response.excerpt =
                SubSeq(response.bestSentence, 1, maxLength - 3) \o <<".", ".", ".">>

ScoreDone == pc = "unit" /\ response.kind = "score"

\* the number of positions of text at which token stands, character for character
literalOccurrences(text, token) ==
    Cardinality({i \in 0..(Len(text) - Len(token)) :
                    SubSeq(text, i + 1, i + Len(token)) = token})

\* the sum over the tokens of 3 for the title, 2 for the tags and 0.5 per
\* occurrence in the composite text
RECURSIVE literalScore(_, _)
literalScore(caseItem, terms) ==
    IF Len(terms) = 0 THEN 0
    ELSE (IF includes(toLowerCase(caseItem.title), Head(terms)) THEN TitleWeight ELSE 0)
         + (IF \E t \in 1..Len(caseItem.tags) :
                  includes(toLowerCase(caseItem.tags[t]), Head(terms))
            THEN TagWeight ELSE 0)
         + OccurrenceWeight * literalOccurrences(searchText(caseItem), Head(terms))
         + literalScore(caseItem, Tail(terms))

\* C16 as claimed: the keyword score of a document is the sum, over the query
\* tokens of length > 2, of 3 if the token is in the title, 2 if it is in a tag
\* and 0.5 times the number of occurrences of the token in the composite text
C16_ScoreFormula ==
    ScoreDone =>
        /\ ~response.threw
        /\ response.relevanceScore = literalScore(call.caseItem, keywordTerms(call.query))

\* C17 as claimed: the per-occurrence count of every token is the number of its
\* literal occurrences in the composite text, overlapping ones included, whatever
\* characters the token is made of
C17_LiteralOccurrences ==
    ScoreDone =>
        /\ ~response.threw
        /\ \A i \in 1..Len(keywordTerms(call.query)) :
              response.contentMatches[i] =
                  literalOccurrences(searchText(call.caseItem), keywordTerms(call.query)[i])

\* the document with one more occurrence of term at the end of its content
withOccurrence(caseItem, term) ==
    [caseItem EXCEPT !.content = @ \o <<" ">> \o term]

\* C18 as claimed: appending one more occurrence of a query token that already
\* matches to the content gives a strictly greater keyword score
C18_AppendIncreases ==
    (ScoreDone /\ ~response.threw) =>
        \A i \in 1..Len(keywordTerms(call.query)) :
            response.contentMatches[i] >= 1 =>
                keywordScore(withOccurrence(call.caseItem, keywordTerms(call.query)[i]),
                             keywordTerms(call.query))
                    > response.relevanceScore

\* the earliest sentence of content whose hit-count is the maximum, the first
\* sentence when every hit-count is 0, the empty string when there is no sentence
earliestBest(content, hitCount(_)) ==
    LET sentences == sentencesOf(content)
    IN  IF Len(sentences) = 0 THEN <<>>
        ELSE sentences[CHOOSE i \in 1..Len(sentences) :
                /\ \A j \in 1..Len(sentences) : hitCount(sentences[j]) <= hitCount(sentences[i])
                /\ \A j \in 1..(i - 1) : hitCount(sentences[j]) < hitCount(sentences[i])]

\* the number of distinct query tokens that occur in the sentence
distinctHits(sentence, query) ==
    LET terms == queryTokens(query)
    IN  Cardinality({terms[i] : i \in {k \in 1..Len(terms) :
                                        includes(toLowerCase(sentence), terms[k])}})

\* the number of query tokens that occur in the sentence, a token the query
\* repeats counted each time
tokenHits(sentence, query) ==
    LET terms == queryTokens(query)
    IN  Cardinality({k \in 1..Len(terms) : includes(toLowerCase(sentence), terms[k])})

\* C19 as claimed: the sentence createExcerpt chooses is the earliest one with the
\* largest number of distinct query tokens occurring in it
C19_DistinctTokenCount ==
    ExcerptDone =>
        response.bestSentence =
            earliestBest(call.content, LAMBDA sentence : distinctHits(sentence, call.query))

\* C19: content is split into sentences on runs of '.', '!' and '?', fragments
\* empty after trimming are dropped; the hit-count of a sentence is the number of
\* whitespace-separated query tokens (no length filter, a repeated token counted
\* each time) that occur in it case-insensitively; the chosen sentence is the
\* earliest one with the maximum hit-count, the first sentence when no hit-count is
\* above zero, and the empty string when the content yields no sentence.
C19_ExcerptSelection ==
    ExcerptDone =>
        response.bestSentence =
            earliestBest(call.content, LAMBDA sentence : tokenHits(sentence, call.query))

\* the query repeats 'pay': the second sentence, with 'pay' alone, beat the first,
\* with 'web' alone
C19_Witness ==
    /\ ExcerptDone
    /\ call.query = QueryPayPayWeb /\ call.content = ContentTwoSentences
    /\ response.bestSentence = <<"P", "a", "y", " ", "i", "t">>

(***************************************************************************)
(* Properties of the loader                                                *)
(***************************************************************************)
\* loadAllCases has completed
LoadDone == pc = "idle"

\* the file can be read and its frontmatter validates
loadable(file) ==
    /\ file.readable
    /\ file.frontmatter.id # "" /\ Len(file.frontmatter.title) >= 1
    /\ file.frontmatter.category \in {"mobile", "web", "backend", "tools", "integrations"}
    /\ Len(file.frontmatter.tags) >= 1
    /\ file.frontmatter.difficulty \in {"beginner", "intermediate", "advanced"}
    /\ isDate(file.frontmatter.last_updated)

\* the store holds the document of the file
stored(file) ==
    \E k \in 1..Len(cases) :
        /\ cases[k].id = file.frontmatter.id
        /\ cases[k].filePath = file.path
        /\ cases[k].title = file.frontmatter.title
        /\ cases[k].content = trim(file.content)

\* C20 as claimed: after the load the store contains every markdown file of the
\* tree that can be read and whose frontmatter is valid
C20_EveryValidFileStored ==
    LoadDone =>
        \A i \in 1..Len(filesOf(tree)) :
            loadable(filesOf(tree)[i]) => stored(filesOf(tree)[i])

\* C20: a file that cannot be read or validated and a sub-directory that cannot
\* be listed are skipped and the load still completes; afterwards the store
\* contains every other markdown file of the tree whose frontmatter is valid,
\* except one whose id a valid file later in the traversal carries too, and it
\* contains nothing else.
C20_ValidFilesStored ==
    LoadDone =>
        /\ \A i \in 1..Len(filesOf(tree)) :
              (/\ loadable(filesOf(tree)[i])
               /\ ~\E j \in (i + 1)..Len(filesOf(tree)) :
                     /\ loadable(filesOf(tree)[j])
                     /\ filesOf(tree)[j].frontmatter.id = filesOf(tree)[i].frontmatter.id)
              => stored(filesOf(tree)[i])
        /\ \A k \in 1..Len(cases) :
              \E i \in 1..Len(filesOf(tree)) :
                  loadable(filesOf(tree)[i]) /\ cases[k].filePath = filesOf(tree)[i].path

\* a load over an unreadable file, an unlistable sub-directory and a valid file
\* has completed with the valid file in the store
C20_Witness ==
    /\ LoadDone
    /\ tree = directory(TRUE, <<FileUnreadable, DirBackend, FileA>>)
    /\ Len(cases) = 1 /\ cases[1].id = "a"

\* the index of the last loadable file of the tree with the id, 0 if none
lastLoadable(id) ==
    IF \E i \in 1..Len(filesOf(tree)) :
          loadable(filesOf(tree)[i]) /\ filesOf(tree)[i].frontmatter.id = id
    THEN CHOOSE i \in 1..Len(filesOf(tree)) :
            /\ loadable(filesOf(tree)[i]) /\ filesOf(tree)[i].frontmatter.id = id
            /\ \A j \in (i + 1)..Len(filesOf(tree)) :
                  ~(loadable(filesOf(tree)[j]) /\ filesOf(tree)[j].frontmatter.id = id)
    ELSE 0

\* C21: in every state of the store no two documents have the same id; after
\* loadAllCases completes, the document kept for an id is that of the last valid
\* file of the tree with this id in traversal order, and an id no valid file of
\* the current tree carries is not in the store, whatever an earlier load left.
C21_UniqueLastWinsCleared ==
    /\ \A i, j \in 1..Len(cases) : i # j => cases[i].id # cases[j].id
    /\ LoadDone =>
          \A k \in 1..Len(cases) :
              /\ lastLoadable(cases[k].id) # 0
              /\ cases[k].filePath = filesOf(tree)[lastLoadable(cases[k].id)].path
              /\ cases[k].content = trim(filesOf(tree)[lastLoadable(cases[k].id)].content)

\* a second load has completed: the tree holds two valid files of id a and the
\* store holds the later one; document b of the first load is gone
C21_Witness ==
    /\ LoadDone /\ call.tool = "loadAllCases"
    /\ \E k \in 1..Len(call.storeBefore) : call.storeBefore[k].id = "b"
    /\ tree = directory(TRUE, <<FileA, DirMobile>>)
    /\ Len(cases) = 1 /\ cases[1].id = "a" /\ cases[1].filePath = FileA2.path

\* the frontmatter is valid but for a missing category
validButCategory(file) ==
    /\ file.readable /\ file.frontmatter.category = Undefined
    /\ loadable([file EXCEPT !.frontmatter.category = "tools"])

\* C22 as claimed: a markdown file whose frontmatter has no category but is
\* otherwise valid is in the store after the load, its category that of the
\* sub-directory under 'cases' when that names a category and 'tools' otherwise
C22_CategoryFromPath ==
    LoadDone =>
        \A i \in 1..Len(filesOf(tree)) :
            validButCategory(filesOf(tree)[i]) =>
                \E k \in 1..Len(cases) :
                    /\ cases[k].id = filesOf(tree)[i].frontmatter.id
                    /\ cases[k].category = getCategoryFromPath(filesOf(tree)[i].path)


(***************************************************************************)
(* Properties of indexCases.                                               *)
(***************************************************************************)
IndexingBegun == call.tool = "indexCases" /\ indexPhase # "off"

\* the number of the batch a document belongs to, counted from 0
batchNumber(d) == (d - 1) \div 10

inFlight(d) == indexCalls[d] \in {"embedding", "upserting"}

\* the pauses a complete run of n documents takes: one less than its batches
pausesOfRun(n) == IF n = 0 THEN 0 ELSE ((n + 9) \div 10) - 1

\* C23: indexCases works on consecutive batches of at most 10 documents;
\* while it runs, the calls in flight all belong to the batch at i; a call
\* of a later batch has started only when every call of every earlier batch
\* is done; exactly one pause has begun per batch before the current one, a
\* pause is only taken when documents remain, and a completed run has taken
\* one pause less than it has batches; when all calls succeed the run
\* completes with every document upserted exactly once.
C23_BatchesInOrder ==
    IndexingBegun =>
        /\ \A d \in DOMAIN indexCalls :
            /\ upserts[d] <= 1
            /\ inFlight(d) /\ indexPhase # "rejected" =>
                  /\ indexPhase = "batch"
                  /\ indexI < d /\ d <= indexI + 10
                  /\ indexI % 10 = 0
            /\ \A e \in DOMAIN indexCalls :
                  batchNumber(d) < batchNumber(e) /\ indexCalls[e] # "none" =>
                      indexCalls[d] = "done"
            /\ indexCalls[d] # "none" => pauses >= batchNumber(d)
        /\ indexPhase = "batch" => pauses = indexI \div 10
        /\ indexPhase = "pause" =>
              /\ pauses = (indexI \div 10) + 1
              /\ indexI + 10 < call.docs
        /\ indexPhase = "completed" =>
              /\ pauses = pausesOfRun(call.docs)
              /\ \A d \in 1..call.docs : upserts[d] = 1 /\ indexCalls[d] = "done"
        /\ call.fault = NoFault => indexPhase # "rejected"

\* a run over two batches has completed after its one pause
C23_Witness ==
    /\ IndexingBegun /\ indexPhase = "completed"
    /\ call.docs > 10 /\ pauses = 1
    /\ \A d \in 1..call.docs : upserts[d] = 1

\* C24: when the embedding or the upsert of one document fails, that
\* document is never upserted, the run never completes, and from the failure
\* on indexCases has rejected and no document of a later batch is embedded
\* or upserted; the other calls of the failing batch go on.
C24_FailurePropagates ==
    IndexingBegun /\ call.fault # NoFault =>
        /\ indexPhase # "completed"
        /\ indexCalls[call.fault.doc] # "done"
        /\ upserts[call.fault.doc] = 0
        /\ indexCalls[call.fault.doc] = "failed" =>
              /\ indexPhase = "rejected"
              /\ \A d \in DOMAIN indexCalls :
                    batchNumber(d) > batchNumber(call.fault.doc) =>
                        indexCalls[d] = "none" /\ upserts[d] = 0

\* indexCases has rejected in its first batch of two, whose other documents
\* have all been upserted
C24_Witness ==
    /\ IndexingBegun /\ indexPhase = "rejected"
    /\ call.docs > 10 /\ batchNumber(call.fault.doc) = 0
    /\ \A d \in 1..10 : d # call.fault.doc => upserts[d] = 1
    /\ \A d \in 11..call.docs : indexCalls[d] = "none"


(***************************************************************************)
(* The store as the tool handlers see it.                                  *)
(***************************************************************************)
RECURSIVE loadFrom(_, _, _)
\* the store after loadCase has been applied to the files from position i on
loadFrom(map, files, i) ==
    IF i > Len(files) THEN map
    ELSE loadFrom(loadCase(map, files[i]), files, i + 1)

\* the store a completed loadAllCases leaves for the tree
loadedStore(dir) == loadFrom(<<>>, filesOf(dir), 1)

Serving == pc \in {"idle", "awaitIndex", "responded"}

\* C25: whenever requests are served, and whenever a request or a
\* search-cases or get-case call is being handled or has been answered, the
\* initial loadAllCases has gone through every file of the tree and the
\* store is the store of the complete load; once the server listens, no step
\* changes the store or runs the load again.
C25_NoPartialStore ==
    /\ [](Serving \/ call # NoCall \/ http # NoHttp =>
            /\ pc # "loading"
            /\ loadPos = Len(filesOf(tree)) + 1
            /\ cases = loadedStore(tree))
    /\ [][Serving => Serving' /\ cases' = cases /\ loadPos' = loadPos /\ tree' = tree]_vars

\* a search-cases call has been handled on the store holding all three
\* documents of the tree
C25_Witness ==
    /\ http.route = "/mcp" /\ http.status = 200
    /\ http.toolCall.tool = "search-cases"
    /\ Len(filesOf(tree)) = 3 /\ Len(cases) = 3


(***************************************************************************)
(* The gate of POST /mcp in the token-protected server.                    *)
(***************************************************************************)
\* the n-th token of the map has expired at the given instant
expiredAt(tokenMap, n, time) == time > tokenMap[n].created_at + 3600

\* the header names a stored token that has not expired
bearerOfLiveToken(tokenMap, header, time) ==
    /\ header.scheme = "Bearer"
    /\ \E n \in 1..Len(tokenMap) :
          /\ tokenMap[n].access_token = header.credentials
          /\ ~expiredAt(tokenMap, n, time)

\* the step answers a POST /mcp request
McpAnswered == http' # http /\ http'.route = "/mcp"

\* C26: a POST /mcp request is passed to the transport (answered 200 with the
\* tool's result) exactly when its Authorization header is 'Bearer t' for a
\* token t that /oauth/token or register-session has stored and that was
\* created at most 3600 seconds before; every other request is answered 401
\* invalid_token, carries no tool result and changes neither clients nor
\* tokens.  Only those two routes add tokens, an expired token stays
\* expired, and no later request with it is passed on.
C26_BearerGate ==
    /\ [][McpAnswered =>
            IF bearerOfLiveToken(tokens, http'.authorization, now)
            THEN http'.status = 200 /\ "result" \in DOMAIN http'
            ELSE /\ http'.status = 401 /\ http'.error = "invalid_token"
                 /\ "result" \notin DOMAIN http'
                 /\ clients' = clients /\ tokens' = tokens]_vars
    /\ [][/\ now' >= now
          /\ Len(tokens') >= Len(tokens)
          /\ \A n \in 1..Len(tokens) : tokens'[n] = tokens[n]
          /\ tokens' # tokens =>
                \/ (http'.route = "/oauth/token" /\ http'.status = 200)
                \/ (http'.route = "/mcp" /\ http'.status = 200
                    /\ http'.toolCall.tool = "register-session")
          /\ \A n \in 1..Len(tokens) :
                expiredAt(tokens, n, now) =>
                    /\ expiredAt(tokens', n, now')
                    /\ ~(/\ McpAnswered /\ http'.status = 200
                         /\ http'.authorization.scheme = "Bearer"
                         /\ http'.authorization.credentials = tokens[n].access_token)]_vars

\* a request carrying a stored token, sent 3601 seconds after the token was
\* created, has been answered 401
C26_Witness ==
    /\ http.route = "/mcp" /\ http.status = 401
    /\ http.authorization.scheme = "Bearer"
    /\ \E n \in 1..Len(tokens) :
          /\ tokens[n].access_token = http.authorization.credentials
          /\ tokens[n].created_at = 0
    /\ now = 3601


(***************************************************************************)
(* Properties of the authorization-code grant.                             *)
(***************************************************************************)
\* the step answers a POST /oauth/token request of the authorization_code
\* grant
CodeRequestAnswered ==
    /\ http'.route = "/oauth/token"
    /\ http' # http \/ tokens' # tokens
    /\ http'.body.grant_type = "authorization_code"

\* the step issues a token for an authorization code
CodeExchanged == CodeRequestAnswered /\ tokens' # tokens

\* the entry of the request's code before the step
codeEntry == authCodes[codeIndex(authCodes, http'.body.code)]

\* C27: a step issues at most one token; a token is issued for a code only
\* if the code is in authCodes and at most 600 seconds have passed since it
\* was stored, and the step deletes the code; a request whose code is not in
\* authCodes, or is older, is answered 400 invalid_grant without a token; a
\* code is stored with the expiry 600 seconds ahead under a number never
\* used before, so a deleted code never comes back and every code yields at
\* most one token.
C27_SingleUseTimeLimited ==
    /\ [](/\ \A k \in 1..Len(authCodes) : authCodes[k].code <= codesIssued
          /\ \A j, k \in 1..Len(authCodes) :
                j # k => authCodes[j].code # authCodes[k].code
          /\ Len(tokens) + Len(authCodes) <= codesIssued)
    /\ [][/\ Len(tokens') <= Len(tokens) + 1
          /\ codesIssued' >= codesIssued
          /\ now' >= now
          /\ \A k \in 1..Len(authCodes') :
                \/ \E j \in 1..Len(authCodes) : authCodes[j] = authCodes'[k]
                \/ /\ authCodes'[k].code = codesIssued + 1
                   /\ codesIssued' = codesIssued + 1
                   /\ authCodes'[k].expires_at = now + 600
          /\ CodeExchanged =>
                /\ codeIndex(authCodes, http'.body.code) # 0
                /\ now <= codeEntry.expires_at
                /\ codeIndex(authCodes', http'.body.code) = 0
          /\ (/\ CodeRequestAnswered
              /\ \/ codeIndex(authCodes, http'.body.code) = 0
                 \/ now > codeEntry.expires_at) =>
                /\ http'.status = 400 /\ http'.error = "invalid_grant"
                /\ tokens' = tokens]_vars

\* a code that was issued and exchanged has been presented again and refused
C27_Witness ==
    /\ http.route = "/oauth/token" /\ http.status = 400
    /\ http.error = "invalid_grant"
    /\ http.body.code >= 1 /\ http.body.code <= codesIssued
    /\ codeIndex(authCodes, http.body.code) = 0
    /\ Len(tokens) >= 1

\* C28 as claimed: a token is issued for a code only to the client the code
\* was issued to
C28_OnlyIssuedClient ==
    [][CodeExchanged => codeEntry.client_id = http'.body.client_id]_vars

\* C29 as claimed: a token is issued for a code stored with a code_challenge
\* only when the request carries a code_verifier whose hash is the challenge
C29_PkceEnforced ==
    [][CodeExchanged /\ codeEntry.code_challenge # Undefined =>
          /\ http'.body.code_verifier # Undefined
          /\ sha256(http'.body.code_verifier) = codeEntry.code_challenge]_vars


(***************************************************************************)
(* Properties of searchCases on a query with an invalid token.             *)
(***************************************************************************)
SearchAnswered ==
    pc = "responded" /\ call.tool = "search-cases" /\ "reply" \in DOMAIN call

\* a token of the query longer than 2 characters is no regular expression
invalidToken(query) ==
    \E i \in 1..Len(keywordTerms(query)) : regexThrows(keywordTerms(query)[i])

\* the ids the index answered for the call
hitIds == {call.reply.hits[i].id : i \in 1..Len(call.reply.hits)}

\* the documents the category and difficulty of the call let through
filteredIds ==
    {cases[k].id : k \in {j \in 1..Len(cases) :
        /\ call.args.category # Undefined => cases[j].category = call.args.category
        /\ call.args.difficulty # Undefined =>
              cases[j].difficulty = call.args.difficulty}}

\* the index answered and every filtered document is among its hits
allFilteredAreHits ==
    /\ ~call.reply.embedFails /\ ~call.reply.queryFails
    /\ filteredIds \subseteq hitIds

resultIds == {response.results[i].id : i \in 1..Len(response.results)}

\* C30 as claimed: a search-cases call whose query holds an invalid token is
\* answered with an empty list
C30_InvalidTokenGivesEmpty ==
    SearchAnswered /\ invalidToken(call.args.query) =>
        ~response.isError /\ response.results = <<>>

\* C30: every search-cases call is answered with a list; when the query
\* holds an invalid token and some filtered document is not among the vector
\* hits, the list is empty, vector matches included; when every filtered
\* document is among the hits nothing is raised and the list holds the
\* vector matches, up to the limit.
C30_InvalidTokenCaught ==
    SearchAnswered =>
        /\ ~response.isError /\ response.kind = "search"
        /\ invalidToken(call.args.query) =>
              IF allFilteredAreHits
              THEN /\ resultIds \subseteq filteredIds
                   /\ Len(response.results)
                        = min(Cardinality(filteredIds),
                              parseSearchCases(call.args).params.limit[1])
              ELSE response.results = <<>>

\* the query 'c++' has been answered with an empty list although the index
\* had returned document a: b and c were left for keyword scoring
C30_Witness ==
    /\ SearchAnswered /\ call.args.query = QueryCpp
    /\ call.args.category = Undefined
    /\ hitIds = {"a"} /\ Len(cases) = 3
    /\ response.results = <<>>

====
